---- MODULE Spec2Model ----
(***************************************************************************)
(* A model of the Brick / BrickWall regridding and padding code of         *)
(* DVIDSparkServices (io_util/brick.py, io_util/brickwall.py).             *)
(*                                                                         *)
(* Boxes are pairs of integer vectors [lo, hi); a numpy array is a record  *)
(* of its shape and its voxels indexed by LOCAL index vectors, so that     *)
(* every global/local offset computation of the code is carried out.       *)
(* The code is written for any number of axes; the model runs it on the    *)
(* axes of Axes.                                                           *)
(***************************************************************************)
EXTENDS Integers, Sequences, FiniteSets, TLC

VARIABLES
    brick,        \* lifecycle: the Brick object on the sending worker
    wire,         \* lifecycle: the pickled state in flight (None or <<state>>)
    peer,         \* lifecycle: the Brick rebuilt on the receiving worker
    out,          \* lifecycle: what the last operation returned or raised
    content,      \* lifecycle: the voxels last written into brick's buffer
    peerContent,  \* lifecycle: the voxels the pickled state was taken from
    destroyCalled,\* lifecycle: the objects destroy() has been called on
    calls,        \* the boxes the volume accessor was called with, in order
    worldSeed,    \* which source volume the volume accessor serves
    wall,         \* the BrickWall operated on: bounding_box, grid, bricks
    padArg,       \* fill_missing: the padding_grid argument (None or <<grid>>)
    padOut,       \* fill_missing: outcome of the call on wall
    padOut2,      \* fill_missing: outcome of the same call on the result
    newGrid,      \* realign: the new_grid argument (None or <<grid>>)
    stage,        \* realign: how far realign_to_new_grid has got
    fragments,    \* realign: the (key, fragment) pairs split_brick emitted
    groups,       \* realign: the groups group_by_key formed
    newWall,      \* realign: outcome of realign_to_new_grid
    opArg,        \* the operation applied to wall (None or <<its arguments>>)
    opOut,        \* outcome of that operation
    opOut2,       \* outcome of the operation that followed on its result
    svcLog,       \* retry: the responses of the service, one per call made
    retry         \* retry: where the retry loops of a service call stand

brickVars == <<brick, wire, peer, out, content, peerContent, destroyCalled>>
padVars == <<wall, padArg, padOut, padOut2>>
opVars == <<opArg, opOut, opOut2>>
retryVars == <<svcLog, retry>>
wallVars == <<worldSeed, wall, padArg, padOut, padOut2,
              newGrid, stage, fragments, groups, newWall,
              opArg, opOut, opOut2, svcLog, retry>>
realignVars == <<newGrid, stage, fragments, groups, newWall>>
vars == <<brick, wire, peer, out, content, peerContent, destroyCalled, calls,
          worldSeed, wall, padArg, padOut, padOut2,
          newGrid, stage, fragments, groups, newWall,
          opArg, opOut, opOut2, svcLog, retry>>

(***************************************************************************)
(* Bounds of the model.                                                    *)
(***************************************************************************)
NumSeeds == 2       \* how many different source volumes Init draws from
MaxCalls == 2       \* accessor calls the lifecycle model records
NumPartitions == 2  \* partitions of the shuffle in the realign model

Axes == {1, 2}
NumLabels == 5
Labels == 0 .. (NumLabels - 1)

None == <<>>
Some(x) == <<x>>

(***************************************************************************)
(* Box algebra.                                                            *)
(***************************************************************************)
Vec(x) == [a \in Axes |-> x]
VAdd(u, v) == [a \in Axes |-> u[a] + v[a]]
VSub(u, v) == [a \in Axes |-> u[a] - v[a]]
Max2(x, y) == IF x >= y THEN x ELSE y
Min2(x, y) == IF x <= y THEN x ELSE y

Box(lo, hi) == [lo |-> lo, hi |-> hi]
Shape(b) == VSub(b.hi, b.lo)
BoxShift(b, v) == Box(VAdd(b.lo, v), VAdd(b.hi, v))
BoxGrow(b, h) == Box(VSub(b.lo, h), VAdd(b.hi, h))
NonEmpty(b) == \A a \in Axes : b.hi[a] > b.lo[a]
Within(inner, outer) ==
    \A a \in Axes : inner.lo[a] >= outer.lo[a] /\ inner.hi[a] <= outer.hi[a]

SetMin(S) == CHOOSE x \in S : \A y \in S : x <= y
SetMax(S) == CHOOSE x \in S : \A y \in S : x >= y

\* The integer points of a box (none when the box is empty in some axis).
Points(b) ==
    IF ~NonEmpty(b) THEN {}
    ELSE LET m == SetMin({b.lo[a] : a \in Axes})
             M == SetMax({b.hi[a] : a \in Axes})
         IN  {p \in [Axes -> m .. (M - 1)] :
                 \A a \in Axes : b.lo[a] <= p[a] /\ p[a] < b.hi[a]}

box_intersection(a, b) ==
    Box([x \in Axes |-> Max2(a.lo[x], b.lo[x])],
        [x \in Axes |-> Min2(a.hi[x], b.hi[x])])

(***************************************************************************)
(* numpy arrays.                                                           *)
(***************************************************************************)
Indices(shape) == Points(Box(Vec(0), shape))
\* No array has a negative extent: a negative one counts as 0.
Array(shape, f(_)) ==
    [shape |-> [a \in Axes |-> Max2(shape[a], 0)],
     data |-> [i \in Indices(shape) |-> f(i)]]
zeros(shape) == Array(shape, LAMBDA i : 0)

\* vol[box_to_slicing(box)] for a box inside the array's bounds.
extract_subvol(vol, box) ==
    Array(Shape(box), LAMBDA i : vol.data[VAdd(i, box.lo)])

\* vol[box_to_slicing(box)] = src
overwrite_subvol(vol, box, src) ==
    [vol EXCEPT !.data =
        [i \in DOMAIN vol.data |->
            IF i \in Points(box) THEN src.data[VSub(i, box.lo)] ELSE vol.data[i]]]

\* The source volume behind the accessor: seed picks one of NumSeeds volumes.
WorldVal(seed, p) == (seed + 3 * p[1] + p[2]) % NumLabels

\* volume_accessor_func(box): an array of the box's shape holding the voxels.
Accessor(seed, box) ==
    Array(Shape(box), LAMBDA i : WorldVal(seed, VAdd(i, box.lo)))

(***************************************************************************)
(* CompressedNumpyArray: the array serialised as its shape and its voxels  *)
(* in C order (last axis fastest), and rebuilt from them.                   *)
(***************************************************************************)
RECURSIVE FlatIndexUpTo(_, _, _)
FlatIndexUpTo(i, shape, k) ==
    IF k = 0 THEN 0
    ELSE FlatIndexUpTo(i, shape, k - 1) * shape[k] + i[k]

FlatIndex(i, shape) == FlatIndexUpTo(i, shape, Cardinality(Axes))

RECURSIVE Product(_, _)
Product(shape, k) == IF k = 0 THEN 1 ELSE Product(shape, k - 1) * shape[k]

CompressedNumpyArray(vol) ==
    [shape |-> vol.shape,
     raw   |-> [n \in 1 .. Product(vol.shape, Cardinality(Axes)) |->
                  LET i == CHOOSE j \in DOMAIN vol.data :
                               FlatIndex(j, vol.shape) = n - 1
                  IN  vol.data[i]]]

deserialize(blob) ==
    Array(blob.shape, LAMBDA i : blob.raw[FlatIndex(i, blob.shape) + 1])

(***************************************************************************)
(* Brick.                                                                  *)
(***************************************************************************)
\* A lazy_creation_fn: the accessor, which answers with an array whose last
\* extent is short by `shrink` voxels (0 for a well-behaved accessor).
Thunk(seed, shrink) == [seed |-> seed, shrink |-> shrink]

CallThunk(fn, box) ==
    Accessor(fn.seed,
             Box(box.lo, [box.hi EXCEPT ![1] = box.hi[1] - fn.shrink]))

\* Brick.__init__ (volume and lazy_creation_fn as None or <<value>>).
InitOk(physical_box, volume, lazy_creation_fn) ==
    /\ (volume = None) # (lazy_creation_fn = None)
    /\ volume # None => Shape(physical_box) = volume[1].shape

Brick(logical_box, physical_box, volume, lazy_creation_fn, custom_hash) ==
    [logical_box       |-> logical_box,
     physical_box      |-> physical_box,
     volume            |-> volume,
     compressed_volume |-> None,
     destroyed         |-> FALSE,
     hash              |-> custom_hash,
     create_volume_fn  |-> lazy_creation_fn,
     fn_deleted        |-> FALSE]

Returned(b, v) == [raised |-> "", value |-> Some(v), brick |-> b]
Raised(b, e) == [raised |-> e, value |-> None, brick |-> b]

\* Brick.volume (the property): the outcome and the brick as the read leaves it.
\* The lazily created array is stored before its shape is asserted.
Volume(b) ==
    IF b.destroyed THEN Raised(b, "RuntimeError")
    ELSE IF b.volume # None THEN Returned(b, b.volume[1])
    ELSE IF b.compressed_volume # None
    THEN LET v == deserialize(b.compressed_volume[1])
         IN  Returned([b EXCEPT !.volume = Some(v)], v)
    ELSE IF b.fn_deleted THEN Raised(b, "AttributeError")
    ELSE IF b.create_volume_fn # None
    THEN LET v == CallThunk(b.create_volume_fn[1], b.physical_box)
         IN  IF v.shape = Shape(b.physical_box)
             THEN Returned([b EXCEPT !.volume = Some(v), !.fn_deleted = TRUE], v)
             ELSE Raised([b EXCEPT !.volume = Some(v)], "AssertionError")
    ELSE Raised(b, "AssertionError")

\* Whether this read of Brick.volume calls the lazy creation function.
VolumeCallsFn(b) ==
    /\ ~b.destroyed
    /\ b.volume = None
    /\ b.compressed_volume = None
    /\ ~b.fn_deleted
    /\ b.create_volume_fn # None

\* Brick.compress
CompressKeepsBlob(b) ==
    IF b.destroyed THEN Raised(b, "RuntimeError")
    ELSE IF b.volume # None
    THEN [raised |-> "", value |-> None,
          brick  |-> [b EXCEPT !.compressed_volume =
                                   IF b.compressed_volume # None
                                   THEN b.compressed_volume
                                   ELSE Some(CompressedNumpyArray(b.volume[1])),
                               !.volume = None]]
    ELSE [raised |-> "", value |-> None, brick |-> b]

Compress(b) ==
    IF b.destroyed THEN Raised(b, "RuntimeError")
    ELSE IF b.volume # None
    THEN [raised |-> "", value |-> None,
          brick  |-> [b EXCEPT !.compressed_volume =
                                   Some(CompressedNumpyArray(b.volume[1])),
                               !.volume = None]]
    ELSE [raised |-> "", value |-> None, brick |-> b]

\* Brick.__getstate__: the outcome, the brick as pickling leaves it, and the
\* pickled state (value), which the receiver's Brick is rebuilt from.
GetStateKeepsVolume(b) ==
    IF b.destroyed THEN Raised(b, "RuntimeError")
    ELSE LET b1 == IF b.volume # None
                   THEN [b EXCEPT !.compressed_volume =
                                      Some(CompressedNumpyArray(b.volume[1]))]
                   ELSE b
         IN  Returned(b1, b1)

GetState(b) ==
    IF b.destroyed THEN Raised(b, "RuntimeError")
    ELSE LET b1 == IF b.volume # None
                   THEN [b EXCEPT !.compressed_volume =
                                      Some(CompressedNumpyArray(b.volume[1]))]
                   ELSE b
         IN  Returned(b1, [b1 EXCEPT !.volume = None])

\* Brick.destroy
DestroyKeepsFlag(b) == [b EXCEPT !.volume = None]

Destroy(b) == [b EXCEPT !.volume = None, !.destroyed = TRUE]

\* Brick.__hash__ with a custom hash, else the hash of logical_box[0].
Hash(b) == IF b.hash = None THEN <<"better_hash", b.logical_box.lo>> ELSE b.hash[1]

\* mapper.apply_inplace(array): the caller relabels the array it was handed.
\* Labels outside the mapping's domain pass through (allow_unmapped=True).
ApplyInplace(vol, mapping) ==
    [vol EXCEPT !.data =
        [i \in DOMAIN vol.data |->
            IF vol.data[i] \in DOMAIN mapping THEN mapping[vol.data[i]]
            ELSE vol.data[i]]]

\* The mapping pairs [(1,2), (2,1)].
SwapLabels == (1 :> 2) @@ (2 :> 1)

\* The state of the realign variables while no realign is modelled.
RealignIdle ==
    /\ newGrid = None /\ stage = "idle" /\ fragments = <<>> /\ groups = <<>>
    /\ newWall = None

\* The state of the operation and retry variables while they are not used.
OpIdle == opArg = None /\ opOut = None /\ opOut2 = None
RetryIdle == svcLog = <<>> /\ retry = None

\* Which of the four states of the lifecycle a brick is in.
StateOf(b) ==
    IF b.destroyed THEN "Destroyed"
    ELSE IF b.volume # None THEN "Materialised"
    ELSE IF b.compressed_volume # None THEN "Compressed"
    ELSE IF b.create_volume_fn # None /\ ~b.fn_deleted THEN "Lazy"
    ELSE "Empty"

(***************************************************************************)
(* Grid and the enumeration of its boxes (neuclease.util).                 *)
(***************************************************************************)
Grid(block_shape, offset, halo_shape) ==
    [block_shape |-> block_shape, offset |-> offset, halo_shape |-> halo_shape]

HasHalo(grid) == \E a \in Axes : grid.halo_shape[a] # 0

\* Grid.compute_logical_box(point): the halo-free cell that holds the point.
compute_logical_box(grid, point) ==
    LET modulus_offset == [a \in Axes |-> grid.offset[a] % grid.block_shape[a]]
        block_index == [a \in Axes |->
                          (point[a] - modulus_offset[a]) \div grid.block_shape[a]]
        block_start == [a \in Axes |->
                          modulus_offset[a] + block_index[a] * grid.block_shape[a]]
    IN  Box(block_start, VAdd(block_start, grid.block_shape))

Intersects(a, b) == NonEmpty(box_intersection(a, b))

\* u before v in lexicographic order of the axes.
LexLess(u, v) ==
    \E a \in Axes : u[a] < v[a] /\ \A c \in Axes : c < a => u[c] = v[c]

RECURSIVE LexSeq(_)
LexSeq(S) ==
    IF S = {} THEN <<>>
    ELSE LET first == CHOOSE u \in S : \A v \in S \ {u} : LexLess(u, v)
         IN  <<first>> \o LexSeq(S \ {first})

\* The cells of the grid, as boxes with their halo when with_halo, that
\* intersect the bounding box, by the lexicographic order of their starts.
CellStarts(bounding_box, grid, with_halo) ==
    LET h == IF with_halo THEN grid.halo_shape ELSE Vec(0)
        first == compute_logical_box(grid, VSub(bounding_box.lo, h)).lo
        last == compute_logical_box(grid, VAdd(bounding_box.hi, h)).lo
        m == SetMin({first[a] : a \in Axes})
        M == SetMax({last[a] : a \in Axes})
    IN  {c \in [Axes -> m .. M] :
            /\ \A a \in Axes : (c[a] - grid.offset[a]) % grid.block_shape[a] = 0
            /\ Intersects(BoxGrow(Box(c, VAdd(c, grid.block_shape)), h),
                          bounding_box)}

boxes_from_grid(bounding_box, grid, include_halos) ==
    LET starts == LexSeq(CellStarts(bounding_box, grid, include_halos))
        h == IF include_halos THEN grid.halo_shape ELSE Vec(0)
    IN  [k \in 1 .. Len(starts) |->
            BoxGrow(Box(starts[k], VAdd(starts[k], grid.block_shape)), h)]

clipped_boxes_from_grid(bounding_box, grid) ==
    LET boxes == boxes_from_grid(bounding_box, grid, FALSE)
    IN  [k \in 1 .. Len(boxes) |-> box_intersection(boxes[k], bounding_box)]

(***************************************************************************)
(* pad_brick_data_from_volume_source and BrickWall.fill_missing.           *)
(***************************************************************************)
Aligned(box, grid) ==
    \A a \in Axes :
        /\ (box.lo[a] - grid.offset[a]) % grid.block_shape[a] = 0
        /\ (box.hi[a] - grid.offset[a]) % grid.block_shape[a] = 0

\* offset_padded_box + padding_grid.offset: lo floored, hi ceiled to the grid.
PaddedBox(box, grid) ==
    LET bs == grid.block_shape
        off == grid.offset
    IN  Box([a \in Axes |-> ((box.lo[a] - off[a]) \div bs[a]) * bs[a] + off[a]],
            [a \in Axes |->
                ((box.hi[a] - off[a] + bs[a] - 1) \div bs[a]) * bs[a] + off[a]])

\* The halo boxes of the loop over the axes: the leading one, then the
\* trailing one, of each axis on which the padded box differs.
RECURSIVE HaloBoxesFrom(_, _, _)
HaloBoxesFrom(axis, orig_box, padded_box) ==
    IF axis \notin Axes THEN <<>>
    ELSE LET leading == IF orig_box.lo[axis] # padded_box.lo[axis]
                        THEN <<Box(padded_box.lo,
                                   [padded_box.hi EXCEPT ![axis] = orig_box.lo[axis]])>>
                        ELSE <<>>
             trailing == IF orig_box.hi[axis] # padded_box.hi[axis]
                         THEN <<Box([padded_box.lo EXCEPT ![axis] = orig_box.hi[axis]],
                                    padded_box.hi)>>
                         ELSE <<>>
         IN  leading \o trailing \o HaloBoxesFrom(axis + 1, orig_box, padded_box)

\* A version of the loop that looks at the leading side of each axis only.
RECURSIVE LeadingHaloBoxesFrom(_, _, _)
LeadingHaloBoxesFrom(axis, orig_box, padded_box) ==
    IF axis \notin Axes THEN <<>>
    ELSE LET leading == IF orig_box.lo[axis] # padded_box.lo[axis]
                        THEN <<Box(padded_box.lo,
                                   [padded_box.hi EXCEPT ![axis] = orig_box.lo[axis]])>>
                        ELSE <<>>
         IN  leading \o LeadingHaloBoxesFrom(axis + 1, orig_box, padded_box)

LeadingHaloBoxes(orig_box, padded_box) ==
    LeadingHaloBoxesFrom(1, orig_box, padded_box)

\* A version that fetches the whole padded box in one call.
WholePaddedBox(orig_box, padded_box) == <<padded_box>>

HaloBoxes(orig_box, padded_box) == HaloBoxesFrom(1, orig_box, padded_box)

\* A version of the early return that is never taken.
NeverAligned(b, padding_grid) == FALSE

\* (offset_physical_box % block_shape == 0).all(): no padding is needed.
AlreadyAligned(b, padding_grid) == Aligned(b.physical_box, padding_grid)

\* The loop over halo_boxes: fetch each from the accessor and overwrite.
RECURSIVE FillHalos(_, _, _, _)
FillHalos(padded_volume, padded_box, halo_boxes, sd) ==
    IF halo_boxes = <<>> THEN padded_volume
    ELSE FillHalos(
             overwrite_subvol(
                 padded_volume,
                 BoxShift(Head(halo_boxes), [a \in Axes |-> -padded_box.lo[a]]),
                 Accessor(sd, Head(halo_boxes))),
             padded_box, Tail(halo_boxes), sd)

PadRaised(b, e, fetched) ==
    [raised |-> e, brick |-> None, input |-> b, fetched |-> fetched]

\* The part of pad_brick that follows the read of brick.volume (outcome r):
\* the new volume, the halo boxes, the accessor calls and the new Brick.
PadFill(b, r, padded_box, halo_boxes, created, sd) ==
    IF r.raised # "" THEN PadRaised(r.brick, r.raised, created)
    ELSE IF halo_boxes = <<>> THEN PadRaised(r.brick, "AssertionError", created)
    ELSE [raised |-> "",
          brick |-> Some(Brick(
              b.logical_box, padded_box,
              Some(FillHalos(
                  overwrite_subvol(
                      zeros(Shape(padded_box)),
                      BoxShift(b.physical_box, [a \in Axes |-> -padded_box.lo[a]]),
                      r.value[1]),
                  padded_box, halo_boxes, sd)),
              None, None)),
          input |-> r.brick,
          fetched |-> created \o halo_boxes]

\* The part of pad_brick that follows the computation of padded_box.
PadTo(b, padded_box, sd) ==
    IF ~Within(padded_box, b.logical_box) THEN PadRaised(b, "AssertionError", <<>>)
    ELSE PadFill(b, Volume(b), padded_box, HaloBoxes(b.physical_box, padded_box),
                 IF VolumeCallsFn(b) THEN <<b.physical_box>> ELSE <<>>, sd)

\* pad_brick_data_from_volume_source(padding_grid, accessor, brick): what it
\* raises or the brick it returns, the input brick as the call leaves it, and
\* the boxes fetched from the accessor, in order.
pad_brick_data_from_volume_source(padding_grid, sd, b) ==
    IF HasHalo(padding_grid) THEN PadRaised(b, "AssertionError", <<>>)
    ELSE IF ~Aligned(b.logical_box, padding_grid)
    THEN PadRaised(b, "AssertionError", <<>>)
    ELSE IF AlreadyAligned(b, padding_grid)
    THEN [raised |-> "", brick |-> Some(b), input |-> b, fetched |-> <<>>]
    ELSE PadTo(b, PaddedBox(b.physical_box, padding_grid), sd)

BrickWall(bounding_box, grid, bricks) ==
    [bounding_box |-> bounding_box, grid |-> grid, bricks |-> bricks]

\* rt.map of pad_brick over the bricks: r is the outcome for the first
\* brick, rest the outcome for the others; a raise aborts the map.
PadCons(r, rest, others) ==
    IF r.raised # ""
    THEN [raised |-> r.raised, bricks |-> <<>>,
          inputs |-> <<r.input>> \o others, fetched |-> r.fetched]
    ELSE [raised |-> rest.raised,
          bricks |-> IF rest.raised = "" THEN r.brick \o rest.bricks ELSE <<>>,
          inputs |-> <<r.input>> \o rest.inputs,
          fetched |-> r.fetched \o rest.fetched]

RECURSIVE PadAll(_, _, _)
PadAll(padding_grid, sd, bricks) ==
    IF bricks = <<>>
    THEN [raised |-> "", bricks |-> <<>>, inputs |-> <<>>, fetched |-> <<>>]
    ELSE PadCons(pad_brick_data_from_volume_source(padding_grid, sd, Head(bricks)),
                 PadAll(padding_grid, sd, Tail(bricks)), Tail(bricks))

FillMissingOutcome(w, r) ==
    [raised |-> r.raised,
     wall |-> IF r.raised = ""
              THEN Some(BrickWall(w.bounding_box, w.grid, r.bricks))
              ELSE None,
     self |-> [w EXCEPT !.bricks = r.inputs],
     fetched |-> r.fetched]

\* BrickWall.fill_missing(accessor, padding_grid): what it raised or the new
\* wall, the receiver as the call leaves it, and the accessor calls made.
fill_missing(w, sd, padding_grid) ==
    FillMissingOutcome(
        w, PadAll(IF padding_grid = None THEN w.grid ELSE padding_grid[1],
                  sd, w.bricks))

(***************************************************************************)
(* realign_bricks_to_new_grid: split_brick, group_by_key and               *)
(* assemble_brick_fragments.                                               *)
(***************************************************************************)
RECURSIVE GCD(_, _)
GCD(x, y) == IF y = 0 THEN x ELSE GCD(y, x % y)

Abs(x) == IF x < 0 THEN -x ELSE x

\* x / y as a float: the reduced fraction.
TrueDiv(x, y) == <<x \div GCD(Abs(x), y), y \div GCD(Abs(x), y)>>

\* hash(tuple(new_logical_box[0] / new_grid.block_shape)), as the tuple hashed.
KeyHash(lo, block_shape) == [a \in Axes |-> TrueDiv(lo[a], block_shape[a])]

\* A version of the key taken from the fragment's own box.
SplitBoxKey(new_logical_box, split_box, new_grid) ==
    [box |-> split_box, hash |-> KeyHash(split_box.lo, new_grid.block_shape)]

\* key = rt.tuple_with_hash(box_as_tuple(new_logical_box)) with its set_hash.
FragmentKey(new_logical_box, split_box, new_grid) ==
    [box |-> new_logical_box,
     hash |-> KeyHash(new_logical_box.lo, new_grid.block_shape)]

\* A version that leaves the halo on the logical box.
KeepsHalo(destination_box, new_grid) == destination_box

\* destination_box - (-halo_shape, halo_shape)
SubtractHalo(destination_box, new_grid) ==
    Box(VAdd(destination_box.lo, new_grid.halo_shape),
        VSub(destination_box.hi, new_grid.halo_shape))

\* A version that hands the fragment on as it was built.
FragmentUncompressed(new_grid, b, volume, new_logical_box, split_box) ==
    [key |-> FragmentKey(new_logical_box, split_box, new_grid),
     brick |-> Brick(new_logical_box, split_box,
                     Some(extract_subvol(
                         volume,
                         BoxShift(split_box, [a \in Axes |-> -b.physical_box.lo[a]]))),
                     None, None)]

\* One pass of split_brick's loop: the (key, fragment) pair of a destination.
FragmentFor(new_grid, b, volume, new_logical_box, split_box) ==
    [key |-> FragmentKey(new_logical_box, split_box, new_grid),
     brick |-> Compress(Brick(
                   new_logical_box, split_box,
                   Some(extract_subvol(
                       volume,
                       BoxShift(split_box, [a \in Axes |-> -b.physical_box.lo[a]]))),
                   None, None)).brick]

\* A version that stops after the first destination.
SplitLoopFirstOnly(new_grid, b, r, destination_boxes) ==
    IF r.raised # "" THEN [raised |-> r.raised, frags |-> <<>>, input |-> r.brick]
    ELSE [raised |-> "",
          frags |-> [k \in 1 .. 1 |->
                       FragmentFor(new_grid, b, r.value[1],
                                   SubtractHalo(destination_boxes[k], new_grid),
                                   box_intersection(destination_boxes[k],
                                                    b.physical_box))],
          input |-> r.brick]

SplitLoop(new_grid, b, r, destination_boxes) ==
    IF r.raised # "" THEN [raised |-> r.raised, frags |-> <<>>, input |-> r.brick]
    ELSE [raised |-> "",
          frags |-> [k \in 1 .. Len(destination_boxes) |->
                       FragmentFor(new_grid, b, r.value[1],
                                   SubtractHalo(destination_boxes[k], new_grid),
                                   box_intersection(destination_boxes[k],
                                                    b.physical_box))],
          input |-> r.brick]

\* A version without the assertion on the physical box.
SplitUnchecked(new_grid, b) ==
    SplitLoop(new_grid, b, Volume(b), boxes_from_grid(b.physical_box, new_grid, TRUE))

\* split_brick(new_grid, original_brick): what it raises or the pairs it
\* returns, and the original brick as the call leaves it.
split_brick(new_grid, b) ==
    IF ~Within(b.physical_box, b.logical_box)
    THEN [raised |-> "AssertionError", frags |-> <<>>, input |-> b]
    ELSE SplitLoop(new_grid, b, Volume(b),
                   boxes_from_grid(b.physical_box, new_grid, TRUE))

\* np.min / np.max over the fragments' physical boxes.
FinalPhysicalBox(frags) ==
    Box([a \in Axes |->
            SetMin({frags[k].physical_box.lo[a] : k \in 1 .. Len(frags)})],
        [a \in Axes |->
            SetMax({frags[k].physical_box.hi[a] : k \in 1 .. Len(frags)})])

\* The loop of assemble_brick_fragments from fragment k on: each fragment's
\* volume is written into final_volume, then the fragment is destroyed.
RECURSIVE AssembleLoop(_, _, _, _)
\* A version that writes the fragment at its global box.
AssembleStepUnshifted(final_volume, final_physical_box, frags, k, r) ==
    IF r.raised # ""
    THEN [raised |-> r.raised, volume |-> final_volume, frags |-> frags]
    ELSE AssembleLoop(
             overwrite_subvol(final_volume, frags[k].physical_box, r.value[1]),
             final_physical_box,
             [frags EXCEPT ![k] = Destroy(r.brick)],
             k + 1)

\* A version that leaves the fragment alive after the copy.
AssembleStepKeeps(final_volume, final_physical_box, frags, k, r) ==
    IF r.raised # ""
    THEN [raised |-> r.raised, volume |-> final_volume, frags |-> frags]
    ELSE AssembleLoop(
             overwrite_subvol(
                 final_volume,
                 BoxShift(frags[k].physical_box,
                          [a \in Axes |-> -final_physical_box.lo[a]]),
                 r.value[1]),
             final_physical_box,
             [frags EXCEPT ![k] = r.brick],
             k + 1)

\* A version that copies the first fragment only.
AssembleStepFirstOnly(final_volume, final_physical_box, frags, k, r) ==
    IF r.raised # ""
    THEN [raised |-> r.raised, volume |-> final_volume, frags |-> frags]
    ELSE AssembleLoop(
             IF k = 1
             THEN overwrite_subvol(
                      final_volume,
                      BoxShift(frags[k].physical_box,
                               [a \in Axes |-> -final_physical_box.lo[a]]),
                      r.value[1])
             ELSE final_volume,
             final_physical_box,
             [frags EXCEPT ![k] = Destroy(r.brick)],
             k + 1)

AssembleStep(final_volume, final_physical_box, frags, k, r) ==
    IF r.raised # ""
    THEN [raised |-> r.raised, volume |-> final_volume, frags |-> frags]
    ELSE AssembleLoop(
             overwrite_subvol(
                 final_volume,
                 BoxShift(frags[k].physical_box,
                          [a \in Axes |-> -final_physical_box.lo[a]]),
                 r.value[1]),
             final_physical_box,
             [frags EXCEPT ![k] = Destroy(r.brick)],
             k + 1)

AssembleLoop(final_volume, final_physical_box, frags, k) ==
    IF k > Len(frags)
    THEN [raised |-> "", volume |-> final_volume, frags |-> frags]
    ELSE AssembleStep(final_volume, final_physical_box, frags, k, Volume(frags[k]))

AssembleOutcome(final_logical_box, final_physical_box, done) ==
    [raised |-> done.raised,
     brick |-> IF done.raised = ""
               THEN Some(Compress(Brick(final_logical_box, final_physical_box,
                                        Some(done.volume), None, None)).brick)
               ELSE None,
     frags |-> done.frags]

\* The part of assemble_brick_fragments after the halo test: r0 is the read
\* of fragments[0].volume for its dtype.
AssembleFrom(frags, final_physical_box, r0) ==
    IF r0.raised # "" THEN [raised |-> r0.raised, brick |-> None, frags |-> frags]
    ELSE AssembleOutcome(
             frags[1].logical_box, final_physical_box,
             AssembleLoop(zeros(Shape(final_physical_box)), final_physical_box,
                          [frags EXCEPT ![1] = r0.brick], 1))

\* (interior_box[1] - interior_box[0] < 1).any()
AllInHalo(final_physical_box, final_logical_box) ==
    \E a \in Axes :
        box_intersection(final_physical_box, final_logical_box).hi[a]
            - box_intersection(final_physical_box, final_logical_box).lo[a] < 1

\* A version without the assertion on the logical boxes.
AssembleUnchecked(frags) ==
    IF AllInHalo(FinalPhysicalBox(frags), frags[1].logical_box)
    THEN [raised |-> "", brick |-> None, frags |-> frags]
    ELSE AssembleFrom(frags, FinalPhysicalBox(frags), Volume(frags[1]))

\* assemble_brick_fragments(fragments): what it raises, or the brick it
\* returns (None for no brick), and the fragments as the call leaves them.
assemble_brick_fragments(frags) ==
    IF \E k \in 1 .. Len(frags) : frags[k].logical_box # frags[1].logical_box
    THEN [raised |-> "AssertionError", brick |-> None, frags |-> frags]
    ELSE IF AllInHalo(FinalPhysicalBox(frags), frags[1].logical_box)
    THEN [raised |-> "", brick |-> None, frags |-> frags]
    ELSE AssembleFrom(frags, FinalPhysicalBox(frags), Volume(frags[1]))

\* Spark's partitioner on the key's hash: the partition a key is shuffled to.
PartitionOf(hash) ==
    (hash[1][1] + 2 * hash[1][2] + 3 * hash[2][1] + 5 * hash[2][2]) % NumPartitions

RECURSIVE SetToSeq(_)
SetToSeq(S) ==
    IF S = {} THEN <<>>
    ELSE <<CHOOSE x \in S : TRUE>> \o SetToSeq(S \ {CHOOSE x \in S : TRUE})

Reverse(q) == [k \in 1 .. Len(q) |-> q[Len(q) + 1 - k]]

\* The fragments of one key, in arrival order.
FragmentsOf(key, pairs) ==
    [k \in 1 .. Len(SelectSeq(pairs, LAMBDA pr : pr.key = key)) |->
        SelectSeq(pairs, LAMBDA pr : pr.key = key)[k].brick]

GroupsOf(keys, pairs) ==
    [k \in 1 .. Len(keys) |->
        [key |-> keys[k], part |-> PartitionOf(keys[k].hash),
         frags |-> FragmentsOf(keys[k], pairs), result |-> None]]

\* rt.group_by_key(pairs): one group per key (per tuple and hash), holding
\* the fragments of that key.
group_by_key(pairs) ==
    GroupsOf(SetToSeq({pairs[k].key : k \in 1 .. Len(pairs)}), pairs)

RECURSIVE Flatten(_)
Flatten(qs) == IF qs = <<>> THEN <<>> ELSE Head(qs) \o Flatten(Tail(qs))

\* rt.flat_map(partial(split_brick, new_grid), original_bricks), from the
\* outcomes of split_brick on each brick.
SplitAll(splits) ==
    IF \E k \in 1 .. Len(splits) : splits[k].raised # ""
    THEN [raised |-> splits[CHOOSE k \in 1 .. Len(splits) :
                               splits[k].raised # ""].raised,
          pairs |-> <<>>,
          bricks |-> [k \in 1 .. Len(splits) |-> splits[k].input]]
    ELSE [raised |-> "",
          pairs |-> Flatten([k \in 1 .. Len(splits) |->
                       [n \in 1 .. Len(splits[k].frags) |->
                           [key |-> splits[k].frags[n].key,
                            brick |-> splits[k].frags[n].brick,
                            src |-> k]]]),
          bricks |-> [k \in 1 .. Len(splits) |-> splits[k].input]]

\* rt.map_values(assemble_brick_fragments, groups): each group with the
\* outcome of its assembly call.
AssembleAll(gs) ==
    [k \in 1 .. Len(gs) |->
        [gs[k] EXCEPT !.result = Some(assemble_brick_fragments(gs[k].frags)),
                      !.frags = assemble_brick_fragments(gs[k].frags).frags]]

\* rt.filter(key_brick[1] is not None) and rt.values: the bricks of the
\* new wall.
NewBricks(assembled) ==
    [k \in 1 .. Len(SelectSeq(assembled, LAMBDA g : g.result[1].brick # None)) |->
        SelectSeq(assembled, LAMBDA g : g.result[1].brick # None)[k]
            .result[1].brick[1]]

\* BrickWall.realign_to_new_grid, from the assembled groups: what it raises
\* or the new wall.
RealignOutcome(w, new_grid, assembled) ==
    IF \E k \in 1 .. Len(assembled) : assembled[k].result[1].raised # ""
    THEN [raised |-> assembled[CHOOSE k \in 1 .. Len(assembled) :
                        assembled[k].result[1].raised # ""].result[1].raised,
          wall |-> None]
    ELSE [raised |-> "",
          wall |-> Some(BrickWall(w.bounding_box, new_grid, NewBricks(assembled)))]

(***************************************************************************)
(* The lifecycle of one brick and of its copy on a receiving worker.       *)
(***************************************************************************)
BrickBoxes == {Box(<<0, 0>>, <<2, 3>>), Box(<<1, 2>>, <<2, 4>>)}

Obj(who) == IF who = "brick" THEN brick[1] ELSE peer[1]
Live(who) == IF who = "brick" THEN brick # None ELSE peer # None
ContentOf(who) == IF who = "brick" THEN content ELSE peerContent

SetObj(who, b, c) ==
    /\ brick' = IF who = "brick" THEN Some(b) ELSE brick
    /\ peer' = IF who = "peer" THEN Some(b) ELSE peer
    /\ content' = IF who = "brick" THEN c ELSE content
    /\ peerContent' = IF who = "peer" THEN c ELSE peerContent

Outcome(op, who, r) ==
    [op |-> op, who |-> who, raised |-> r.raised, value |-> r.value]

InitBrick ==
    /\ \E phys \in BrickBoxes, seed \in 0 .. (NumSeeds - 1), shrink \in {0, 1},
          lazy \in BOOLEAN :
          LET logical == Box(<<0, 0>>, <<4, 4>>)
              vol == IF lazy THEN None ELSE Some(Accessor(seed, phys))
              fn == IF lazy THEN Some(Thunk(seed, shrink)) ELSE None
          IN  /\ InitOk(phys, vol, fn)
              /\ lazy \/ shrink = 0
              /\ brick = Some(Brick(logical, phys, vol, fn, None))
              /\ content = vol
    /\ wire = None
    /\ peer = None
    /\ peerContent = None
    /\ destroyCalled = {}
    /\ out = [op |-> "init", who |-> "brick", raised |-> "", value |-> None]
    /\ calls = <<>>
    /\ worldSeed = 0
    /\ wall = None /\ padArg = None /\ padOut = None /\ padOut2 = None
    /\ RealignIdle /\ OpIdle /\ RetryIdle

\* A caller reads brick.volume.
ReadVolume(who) ==
    /\ Live(who)
    /\ VolumeCallsFn(Obj(who)) => Len(calls) < MaxCalls
    /\ LET b == Obj(who)
           r == Volume(b)
       IN  /\ SetObj(who, r.brick,
                     IF VolumeCallsFn(b) THEN r.brick.volume ELSE ContentOf(who))
           /\ out' = Outcome("read", who, r)
           /\ calls' = IF VolumeCallsFn(b) THEN Append(calls, b.physical_box)
                       ELSE calls
    /\ UNCHANGED <<wire, destroyCalled, wallVars>>

\* A caller reads brick.volume and relabels the array it was handed in place.
WriteInPlace(who) ==
    /\ Live(who)
    /\ VolumeCallsFn(Obj(who)) => Len(calls) < MaxCalls
    /\ LET b == Obj(who)
           r == Volume(b)
       IN  /\ IF r.raised = ""
              THEN LET v == ApplyInplace(r.value[1], SwapLabels)
                   IN  SetObj(who, [r.brick EXCEPT !.volume = Some(v)], Some(v))
              ELSE SetObj(who, r.brick,
                          IF VolumeCallsFn(b) THEN r.brick.volume
                          ELSE ContentOf(who))
           /\ out' = [Outcome("write", who, r) EXCEPT !.value = None]
           /\ calls' = IF VolumeCallsFn(b) THEN Append(calls, b.physical_box)
                       ELSE calls
    /\ UNCHANGED <<wire, destroyCalled, wallVars>>

DoCompress(who) ==
    /\ Live(who)
    /\ LET r == Compress(Obj(who))
       IN  /\ SetObj(who, r.brick, ContentOf(who))
           /\ out' = Outcome("compress", who, r)
    /\ UNCHANGED <<wire, destroyCalled, calls, wallVars>>

DoDestroy(who) ==
    /\ Live(who)
    /\ SetObj(who, Destroy(Obj(who)), ContentOf(who))
    /\ destroyCalled' = destroyCalled \cup {who}
    /\ out' = [op |-> "destroy", who |-> who, raised |-> "", value |-> None]
    /\ UNCHANGED <<wire, calls, wallVars>>

\* The sending worker pickles the brick for transport.
Pickle ==
    /\ Live("brick")
    /\ LET r == GetState(brick[1])
       IN  /\ brick' = Some(r.brick)
           /\ wire' = IF r.raised = ""
                      THEN Some([state |-> r.value[1], content |-> content])
                      ELSE wire
           /\ out' = [Outcome("pickle", "brick", r) EXCEPT !.value = None]
    /\ UNCHANGED <<peer, content, peerContent, destroyCalled, calls, wallVars>>

\* The receiving worker rebuilds the brick from the pickled state.
Unpickle ==
    /\ wire # None
    /\ peer' = Some(wire[1].state)
    /\ peerContent' = wire[1].content
    /\ wire' = None
    /\ destroyCalled' = destroyCalled \ {"peer"}
    /\ out' = [op |-> "unpickle", who |-> "peer", raised |-> "", value |-> None]
    /\ UNCHANGED <<brick, content, calls, wallVars>>

\* group_by_key on the receiving worker: hashes the brick, reads no voxel.
GroupByKeyHash ==
    /\ Live("peer")
    /\ out' = [op |-> "hash", who |-> "peer", raised |-> "", value |-> None]
    /\ Hash(peer[1]) = Hash(peer[1])
    /\ UNCHANGED <<brick, wire, peer, content, peerContent, destroyCalled, calls, wallVars>>

NextBrick ==
    \/ \E who \in {"brick", "peer"} : ReadVolume(who)
    \/ \E who \in {"brick", "peer"} : WriteInPlace(who)
    \/ \E who \in {"brick", "peer"} : DoCompress(who)
    \/ \E who \in {"brick", "peer"} : DoDestroy(who)
    \/ Pickle
    \/ Unpickle
    \/ GroupByKeyHash

SpecBrick == InitBrick /\ [][NextBrick]_vars

(***************************************************************************)
(* Claims about the lifecycle (SpecBrick).                                 *)
(***************************************************************************)
Objects == {"brick", "peer"}

\* C3: Destroyed is terminal. Once destroy() has been called on a brick it is
\* in the Destroyed state in every later state, it holds no buffer, and every
\* later volume read, write through the volume, compress() and pickling of it
\* raises RuntimeError and returns nothing.
C3_DestroyedIsTerminal ==
    \A who \in Objects :
        (who \in destroyCalled /\ Live(who)) =>
            /\ StateOf(Obj(who)) = "Destroyed"
            /\ Obj(who).volume = None
            /\ (out.who = who /\ out.op \in {"read", "write", "compress", "pickle"})
                   => (out.raised = "RuntimeError" /\ out.value = None)

C3_Witness ==
    /\ "brick" \in destroyCalled
    /\ brick[1].compressed_volume # None
    /\ out = [op |-> "read", who |-> "brick", raised |-> "RuntimeError",
              value |-> None]

\* C7: a lazy brick whose thunk answers with an array of another shape than
\* shape(physical_box) fails permanently: no volume read of the brick ever
\* returns an array whose shape differs from shape(physical_box).
C7_MisshapedNeverReturned ==
    (out.op = "read" /\ out.raised = "" /\ Live(out.who)) =>
        out.value[1].shape = Shape(Obj(out.who).physical_box)

\* C8: a volume read that returns, returns exactly the voxels last written
\* into the brick's buffer (by the lazy creation, or by a caller's in-place
\* relabelling), whatever compress(), read and pickle steps came in between;
\* on the receiving worker, the voxels the brick had when it was pickled.
C8_ReadReturnsLatest ==
    (out.op = "read" /\ out.raised = "" /\ Live(out.who)) =>
        out.value = ContentOf(out.who)

\* A read on the sender that returned voxels newer than those of an earlier
\* compression (the one pickling made, now held by the receiver), while the
\* sender holds a compressed blob.
C8_Witness ==
    /\ out.op = "read" /\ out.who = "brick" /\ out.raised = ""
    /\ brick[1].compressed_volume # None
    /\ peer # None /\ peerContent # None /\ peerContent # content
    /\ out.value = content

\* C9: the pickled state of a brick never holds a materialised buffer, and
\* holds the compressed voxels whenever the brick held voxels; the brick
\* rebuilt from it starts Compressed; and the receiver's buffer is
\* materialised only by a step that reads the receiver's volume.
C9_StateIsCompressed ==
    /\ wire # None =>
          /\ wire[1].state.volume = None
          /\ wire[1].content # None =>
                /\ wire[1].state.compressed_volume # None
                /\ Some(deserialize(wire[1].state.compressed_volume[1]))
                      = wire[1].content
    /\ (out.op = "unpickle" /\ peerContent # None) =>
          StateOf(peer[1]) = "Compressed"

C9_DecompressOnlyOnRead ==
    (peer # None /\ peer' # None /\ peer'[1].volume # None
        /\ peer[1].volume = None)
        => (out'.who = "peer" /\ out'.op \in {"read", "write"})

C9_PickledCompressed == []C9_StateIsCompressed /\ [][C9_DecompressOnlyOnRead]_vars

C9_Witness ==
    /\ out.op = "hash"
    /\ peerContent # None
    /\ StateOf(peer[1]) = "Compressed"
    /\ StateOf(brick[1]) = "Materialised"

(***************************************************************************)
(* fill_missing on a wall of one brick, and again on its result (SpecPad). *)
(***************************************************************************)
PadCellShape == <<4, 2>>
PadCellStarts == {<<0, 0>>, <<-3, 2>>}

SubBoxes(b) ==
    {Box(lo, hi) : lo \in Points(b), hi \in Points(BoxShift(b, Vec(1)))}
        \cap {x \in [lo : Points(b), hi : Points(BoxShift(b, Vec(1)))] : NonEmpty(x)}

\* The physical boxes of the brick: every box inside its logical box, and
\* two that reach beyond it.
PadPhysBoxes(logical) ==
    SubBoxes(logical)
        \cup {BoxGrow(logical, <<1, 0>>),
              Box(VSub(logical.lo, <<0, 1>>), VAdd(logical.lo, <<2, 1>>))}

PadGridArgs ==
    {None}
        \cup {Some(Grid(bs, off, Vec(0))) :
                 bs \in {<<1, 1>>, <<2, 1>>, <<2, 2>>, <<4, 2>>},
                 off \in {<<0, 0>>, <<1, 0>>}}
        \cup {Some(Grid(<<2, 1>>, <<1, 0>>, <<0, 1>>))}

\* The brick's own voxels come from another source volume than the one the
\* padding accessor serves, so that the two can be told apart.
BrickSeed(sd) == (sd + 1) % NumSeeds

InitPad ==
    /\ \E start \in PadCellStarts, halo \in {<<0, 0>>, <<1, 0>>},
          sd \in 0 .. (NumSeeds - 1), lazy \in BOOLEAN :
          LET logical == Box(start, VAdd(start, PadCellShape))
          IN  \E phys \in PadPhysBoxes(logical) :
                 LET vol == IF lazy THEN None
                            ELSE Some(Accessor(BrickSeed(sd), phys))
                     fn == IF lazy THEN Some(Thunk(BrickSeed(sd), 0)) ELSE None
                 IN  /\ worldSeed = sd
                     /\ wall = BrickWall(phys, Grid(PadCellShape, start, halo),
                                         <<Brick(logical, phys, vol, fn, None)>>)
    /\ padArg = None /\ padOut = None /\ padOut2 = None
    /\ RealignIdle /\ OpIdle /\ RetryIdle
    /\ calls = <<>>
    /\ brick = None /\ wire = None /\ peer = None /\ content = None
    /\ peerContent = None /\ destroyCalled = {}
    /\ out = [op |-> "init", who |-> "brick", raised |-> "", value |-> None]

\* wall.fill_missing(accessor, padding_grid)
FillMissing(padding_grid) ==
    /\ padOut = None
    /\ \E r \in {fill_missing(wall, worldSeed, padding_grid)} :
           /\ padOut' = Some([raised |-> r.raised, wall |-> r.wall,
                              fetched |-> r.fetched])
           /\ wall' = r.self
           /\ calls' = calls \o r.fetched
    /\ padArg' = padding_grid
    /\ UNCHANGED <<brickVars, worldSeed, padOut2, realignVars, opVars, retryVars>>

\* new_wall.fill_missing(accessor, padding_grid) on the wall just returned.
FillMissingAgain ==
    /\ padOut # None /\ padOut[1].raised = ""
    /\ padOut2 = None
    /\ \E r \in {fill_missing(padOut[1].wall[1], worldSeed, padArg)} :
           /\ padOut2' = Some([raised |-> r.raised, wall |-> r.wall,
                               fetched |-> r.fetched])
           /\ padOut' = Some([padOut[1] EXCEPT !.wall = Some(r.self)])
           /\ calls' = calls \o r.fetched
    /\ UNCHANGED <<brickVars, worldSeed, wall, padArg, realignVars, opVars, retryVars>>

NextPad ==
    \/ \E padding_grid \in PadGridArgs : FillMissing(padding_grid)
    \/ FillMissingAgain

SpecPad == InitPad /\ [][NextPad]_vars

\* The voxel a brick holds at a global coordinate of its physical box.
VoxelAt(b, p) == Volume(b).value[1].data[VSub(p, b.physical_box.lo)]

PadGridUsed == IF padArg = None THEN wall.grid ELSE padArg[1]

\* C2: for a brick with physical_box inside logical_box and a halo-free
\* padding grid the logical box is aligned to, pad_brick returns a brick with
\* the same logical box, whose physical box is the smallest box aligned to
\* the padding grid that contains the original physical box (and it lies in
\* the logical box), and whose voxels are the brick's own inside the original
\* physical box and the accessor's everywhere else. With the wall's own grid
\* as padding grid the physical box becomes the logical box.
C2_PadBrick ==
    (/\ padOut # None
     /\ Within(wall.bricks[1].physical_box, wall.bricks[1].logical_box)
     /\ ~HasHalo(PadGridUsed)
     /\ Aligned(wall.bricks[1].logical_box, PadGridUsed))
    => /\ padOut[1].raised = ""
       /\ LET b == wall.bricks[1]
              g == PadGridUsed
              n == padOut[1].wall[1].bricks[1]
          IN  /\ Len(padOut[1].wall[1].bricks) = 1
              /\ n.logical_box = b.logical_box
              /\ Aligned(n.physical_box, g)
              /\ Within(b.physical_box, n.physical_box)
              /\ Within(n.physical_box, b.logical_box)
              /\ \A a \in Axes :
                    /\ b.physical_box.lo[a] - n.physical_box.lo[a] < g.block_shape[a]
                    /\ n.physical_box.hi[a] - b.physical_box.hi[a] < g.block_shape[a]
              /\ Volume(n).value[1].shape = Shape(n.physical_box)
              /\ \A p \in Points(n.physical_box) :
                    VoxelAt(n, p) = IF p \in Points(b.physical_box)
                                    THEN VoxelAt(b, p)
                                    ELSE WorldVal(worldSeed, p)
              /\ padArg = None => n.physical_box = n.logical_box

\* A padded brick that took halo boxes on both sides of both axes.
C2_Witness ==
    /\ padOut # None /\ padOut[1].raised = ""
    /\ padArg = None
    /\ Len(padOut[1].fetched) = 4
    /\ padOut[1].wall[1].bricks[1].physical_box = wall.bricks[1].logical_box
    /\ \E p \in Points(wall.bricks[1].logical_box) : WorldVal(worldSeed, p) # 0

\* C10: pad_brick is idempotent. Whenever pad_brick succeeded, applying it
\* with the same padding grid to its result succeeds, returns a brick with
\* the same logical box, physical box and voxels, and calls the accessor no
\* further time.
C10_PadIdempotent ==
    padOut2 # None =>
        /\ padOut2[1].raised = ""
        /\ padOut2[1].fetched = <<>>
        /\ LET n1 == padOut[1].wall[1].bricks[1]
               n2 == padOut2[1].wall[1].bricks[1]
           IN  /\ n2.logical_box = n1.logical_box
               /\ n2.physical_box = n1.physical_box
               /\ Volume(n2).raised = ""
               /\ Volume(n2).value = Volume(n1).value

C10_Witness ==
    /\ padOut2 # None /\ padOut2[1].raised = ""
    /\ padOut[1].fetched # <<>>
    /\ padOut2[1].wall[1].bricks[1].physical_box # wall.bricks[1].physical_box
    /\ Len(calls) = Len(padOut[1].fetched)

(***************************************************************************)
(* realign_to_new_grid on a wall of eager bricks (SpecRealign): the map     *)
(* side (split_brick on every brick), the shuffle (group_by_key) and the    *)
(* reduce side (assemble_brick_fragments on every group).                   *)
(***************************************************************************)
RealignBounds == {Box(<<0, 0>>, <<6, 2>>), Box(<<1, -1>>, <<5, 3>>)}
RealignBlockShapes == {<<2, 2>>, <<3, 2>>, <<4, 4>>}
RealignOffsets == {<<0, 0>>, <<1, 1>>}
RealignHalos == {<<0, 0>>, <<1, 0>>, <<1, 1>>}

\* The bricks of a dense wall: one eager brick per cell of the grid that
\* intersects the bounding box.
DenseBricks(bounding_box, grid, sd) ==
    [k \in 1 .. Len(boxes_from_grid(bounding_box, grid, FALSE)) |->
        Brick(boxes_from_grid(bounding_box, grid, FALSE)[k],
              clipped_boxes_from_grid(bounding_box, grid)[k],
              Some(Accessor(sd, clipped_boxes_from_grid(bounding_box, grid)[k])),
              None, None)]

\* The sequence without its element at index k (the whole sequence for 0).
Without(q, k) ==
    [n \in 1 .. (IF k = 0 THEN Len(q) ELSE Len(q) - 1) |->
        IF k = 0 \/ n < k THEN q[n] ELSE q[n + 1]]

\* By how much a brick's physical box may reach beyond its logical box, at
\* its lower and at its upper corner.
Overhangs == {Box(<<1, 0>>, <<1, 0>>), Box(<<0, 0>>, <<0, 1>>)}

\* The bricks with brick k's physical box being its logical box widened by
\* the overhang, its volume being the source's on that box.
WithOverhang(q, k, over, sd) ==
    [n \in 1 .. Len(q) |->
        IF n # k THEN q[n]
        ELSE Brick(q[n].logical_box,
                   Box(VSub(q[n].logical_box.lo, over.lo),
                       VAdd(q[n].logical_box.hi, over.hi)),
                   Some(Accessor(sd, Box(VSub(q[n].logical_box.lo, over.lo),
                                         VAdd(q[n].logical_box.hi, over.hi)))),
                   None, None)]

\* The walls realign starts from: a dense wall, maybe with one brick
\* missing, maybe with its first or last brick reaching beyond its cell.
RealignWalls(bb, grid, sd) ==
    {BrickWall(bb, grid, Without(DenseBricks(bb, grid, sd), drop)) :
        drop \in 0 .. Len(DenseBricks(bb, grid, sd))}
      \cup
    {BrickWall(bb, grid, WithOverhang(DenseBricks(bb, grid, sd), k, over, sd)) :
        k \in {1, Len(DenseBricks(bb, grid, sd))}, over \in Overhangs}

InitRealign ==
    /\ \E bb \in RealignBounds, bs \in RealignBlockShapes \ {<<4, 4>>},
          off \in RealignOffsets, sd \in 0 .. (NumSeeds - 1) :
          /\ worldSeed = sd
          /\ wall \in RealignWalls(bb, Grid(bs, off, Vec(0)), sd)
    /\ newGrid = None /\ stage = "wall" /\ fragments = <<>> /\ groups = <<>>
    /\ newWall = None
    /\ OpIdle /\ RetryIdle
    /\ padArg = None /\ padOut = None /\ padOut2 = None
    /\ calls = <<>>
    /\ brick = None /\ wire = None /\ peer = None /\ content = None
    /\ peerContent = None /\ destroyCalled = {}
    /\ out = [op |-> "init", who |-> "brick", raised |-> "", value |-> None]

realignFixed == <<brickVars, calls, worldSeed, padArg, padOut, padOut2,
                  opArg, opOut, opOut2, svcLog, retry>>

\* The map side: split_brick on every brick of the wall.
SplitBricks(new_grid) ==
    /\ stage = "wall"
    /\ newGrid' = Some(new_grid)
    /\ \E r \in {SplitAll([k \in 1 .. Len(wall.bricks) |->
                              split_brick(new_grid, wall.bricks[k])])} :
          /\ wall' = [wall EXCEPT !.bricks = r.bricks]
          /\ fragments' = r.pairs
          /\ stage' = IF r.raised = "" THEN "split" ELSE "done"
          /\ newWall' = IF r.raised = "" THEN None
                        ELSE Some([raised |-> r.raised, wall |-> None])
    /\ UNCHANGED <<realignFixed, groups>>

\* The shuffle: the fragments arrive in some order and are grouped by key.
GroupByKey ==
    /\ stage = "split"
    /\ \E arrival \in {fragments, Reverse(fragments)} :
          groups' = group_by_key(arrival)
    /\ stage' = "grouped"
    /\ UNCHANGED <<realignFixed, wall, newGrid, fragments, newWall>>

\* The reduce side: assemble_brick_fragments on every group, the filter,
\* and the new wall.
AssembleGroups ==
    /\ stage = "grouped"
    /\ \E assembled \in {AssembleAll(groups)} :
          /\ groups' = assembled
          /\ newWall' = Some(RealignOutcome(wall, newGrid[1], assembled))
    /\ stage' = "done"
    /\ UNCHANGED <<realignFixed, wall, newGrid, fragments>>

NextRealign ==
    \/ \E bs \in RealignBlockShapes, off \in RealignOffsets, h \in RealignHalos :
          SplitBricks(Grid(bs, off, h))
    \/ GroupByKey
    \/ AssembleGroups

SpecRealign == InitRealign /\ [][NextRealign]_vars

(***************************************************************************)
(* Claims about realign_to_new_grid (SpecRealign).                         *)
(***************************************************************************)
RealignDone == stage = "done" /\ newWall[1].raised = ""

\* The bricks of the new wall.
Dest == newWall[1].wall[1].bricks

\* The source bricks that cover a coordinate.
SourcesAt(p) ==
    {k \in 1 .. Len(wall.bricks) : p \in Points(wall.bricks[k].physical_box)}

DestsAt(p) == {d \in 1 .. Len(Dest) : p \in Points(Dest[d].physical_box)}

SourcesDisjointInLogical ==
    /\ \A k \in 1 .. Len(wall.bricks) :
          Within(wall.bricks[k].physical_box, wall.bricks[k].logical_box)
    /\ \A k, n \in 1 .. Len(wall.bricks) :
          k # n => ~Intersects(wall.bricks[k].physical_box,
                               wall.bricks[n].physical_box)

\* The two grids have the same cells.
SameCells(g, h) ==
    /\ g.block_shape = h.block_shape
    /\ \A a \in Axes : (g.offset[a] - h.offset[a]) % g.block_shape[a] = 0

BrickValue(b) ==
    [logical_box |-> b.logical_box, physical_box |-> b.physical_box,
     volume |-> Volume(b).value]

\* C1: for source bricks with pairwise disjoint physical boxes, each inside
\* its logical box, and a new grid without halo, realign_to_new_grid yields
\* a wall in which every coordinate covered by a source brick is covered by
\* exactly one new brick, whose logical box is the new grid's cell of the
\* coordinate and whose voxel there is the source's; a coordinate of a new
\* brick's physical box that no source covers holds zero. Realigning to a
\* grid with the cells of the wall's own grid yields the same bricks.
C1_RealignNoHalo ==
    (stage = "done" /\ ~HasHalo(newGrid[1]) /\ SourcesDisjointInLogical)
    => /\ newWall[1].raised = ""
       /\ \A k \in 1 .. Len(wall.bricks) :
             \A p \in Points(wall.bricks[k].physical_box) :
                /\ Cardinality(DestsAt(p)) = 1
                /\ \A d \in DestsAt(p) :
                      /\ Dest[d].logical_box = compute_logical_box(newGrid[1], p)
                      /\ VoxelAt(Dest[d], p) = VoxelAt(wall.bricks[k], p)
       /\ \A d \in 1 .. Len(Dest) :
             \A p \in Points(Dest[d].physical_box) :
                SourcesAt(p) = {} => VoxelAt(Dest[d], p) = 0
       /\ SameCells(newGrid[1], wall.grid)
             => /\ Len(Dest) = Len(wall.bricks)
                /\ {BrickValue(Dest[d]) : d \in 1 .. Len(Dest)}
                      = {BrickValue(wall.bricks[k]) : k \in 1 .. Len(wall.bricks)}

\* A realign to a halo-free grid with other cells in which a new brick was
\* assembled from fragments of several source bricks around a gap that no
\* source covers although the volume is not zero there.
C1_Witness ==
    /\ RealignDone /\ ~HasHalo(newGrid[1])
    /\ ~SameCells(newGrid[1], wall.grid)
    /\ \E g \in 1 .. Len(groups) : Len(groups[g].frags) >= 3
    /\ \E d \in 1 .. Len(Dest) :
          \E p \in Points(Dest[d].physical_box) :
             SourcesAt(p) = {} /\ WorldVal(worldSeed, p) # 0

\* C4: fragments with the same destination logical box carry equal keys
\* with equal hash; group_by_key hands all of them to one assembly call
\* (one group per logical box, holding every fragment of that box); and the
\* new wall holds at most one brick per logical box.
C4_OneAssemblyPerLogicalBox ==
    /\ \A i, j \in 1 .. Len(fragments) :
          fragments[i].brick.logical_box = fragments[j].brick.logical_box
          => /\ fragments[i].key.box = fragments[j].key.box
             /\ fragments[i].key.hash = fragments[j].key.hash
    /\ stage \in {"grouped", "done"}
       => /\ \A g, h \in 1 .. Len(groups) :
                groups[g].frags[1].logical_box = groups[h].frags[1].logical_box
                => g = h
          /\ \A g \in 1 .. Len(groups) :
                Len(groups[g].frags)
                   = Cardinality({i \in 1 .. Len(fragments) :
                        fragments[i].brick.logical_box
                           = groups[g].frags[1].logical_box})
    /\ RealignDone
       => \A d, e \in 1 .. Len(Dest) :
             Dest[d].logical_box = Dest[e].logical_box => d = e

\* A finished realign in which fragments of different source bricks met in
\* one group and the groups were spread over several partitions.
C4_Witness ==
    /\ RealignDone
    /\ \E i, j \in 1 .. Len(fragments) :
          /\ fragments[i].src # fragments[j].src
          /\ fragments[i].brick.logical_box = fragments[j].brick.logical_box
    /\ \E g, h \in 1 .. Len(groups) : groups[g].part # groups[h].part
    /\ Len(Dest) >= 2

\* The source wall tiles its bounding box densely.
DenseSource ==
    \A p \in Points(wall.bounding_box) : SourcesAt(p) # {}

\* C5: when the source wall tiles the bounding box B densely with halo-free
\* bricks and the new grid has a halo h, every brick of the new wall has
\* physical_box = intersect(logical_box grown by h, B) and holds the source
\* voxel at every coordinate of it; so a voxel has the same value in every
\* new brick whose grown cell contains it.
C5_DenseHalo ==
    (/\ stage = "done" /\ HasHalo(newGrid[1])
     /\ DenseSource /\ SourcesDisjointInLogical)
    => /\ newWall[1].raised = ""
       /\ \A d \in 1 .. Len(Dest) :
             /\ Dest[d].physical_box
                   = box_intersection(
                         BoxGrow(Dest[d].logical_box, newGrid[1].halo_shape),
                         wall.bounding_box)
             /\ \A p \in Points(Dest[d].physical_box) :
                   \A k \in SourcesAt(p) :
                      VoxelAt(Dest[d], p) = VoxelAt(wall.bricks[k], p)
       /\ \A p \in Points(wall.bounding_box) :
             \A d, e \in 1 .. Len(Dest) :
                (/\ p \in Points(BoxGrow(Dest[d].logical_box, newGrid[1].halo_shape))
                 /\ p \in Points(BoxGrow(Dest[e].logical_box, newGrid[1].halo_shape)))
                => VoxelAt(Dest[d], p) = VoxelAt(Dest[e], p)

\* A dense wall realigned to a grid with halo: a non-zero voxel held by two
\* new bricks, and a new brick whose grown cell the bounding box clips.
C5_Witness ==
    /\ RealignDone /\ HasHalo(newGrid[1]) /\ DenseSource
    /\ \E p \in Points(wall.bounding_box) :
          Cardinality(DestsAt(p)) >= 2 /\ WorldVal(worldSeed, p) # 0
    /\ \E d \in 1 .. Len(Dest) :
          Dest[d].physical_box
             # BoxGrow(Dest[d].logical_box, newGrid[1].halo_shape)

\* C6: a destination whose fragments all lie in its halo (none of them
\* intersects the destination's logical box) yields no brick of the new wall.
C6_HaloOnlyDropped ==
    RealignDone
    => \A g \in 1 .. Len(groups) :
          (\A n \in 1 .. Len(groups[g].frags) :
              ~Intersects(groups[g].frags[n].physical_box,
                          groups[g].frags[n].logical_box))
          => \A d \in 1 .. Len(Dest) :
                Dest[d].logical_box # groups[g].frags[1].logical_box

\* What does hold of C6: no brick is returned when the extent of the
\* fragments fails to intersect the logical box, and every brick of the new
\* wall has a physical box that intersects its logical box.
RealignEmitsIntersecting ==
    stage = "done"
    => /\ \A g \in 1 .. Len(groups) :
             ~Intersects(FinalPhysicalBox(groups[g].frags),
                         groups[g].frags[1].logical_box)
             => groups[g].result[1].brick = None
       /\ RealignDone
             => \A d \in 1 .. Len(Dest) :
                   Intersects(Dest[d].physical_box, Dest[d].logical_box)

(***************************************************************************)
(* clip_to_logical on one brick, and again on its result (SpecClip).       *)
(***************************************************************************)
\* A version that keeps the whole physical box.
ClipBoxPhysical(b) == b.physical_box

\* intersection = box_intersection(brick.physical_box, brick.logical_box)
ClipBox(b) == box_intersection(b.physical_box, b.logical_box)

ClipFrom(b, intersection, r) ==
    IF r.raised # "" THEN [raised |-> r.raised, brick |-> None, input |-> r.brick]
    ELSE [raised |-> "",
          brick |-> Some(Brick(
                        b.logical_box, intersection,
                        Some(extract_subvol(
                            r.value[1],
                            BoxShift(intersection,
                                     [a \in Axes |-> -b.physical_box.lo[a]]))),
                        None, None)),
          input |-> r.brick]

\* clip_to_logical(brick): what it raises or the brick it returns, and the
\* given brick as the call leaves it.
clip_to_logical(b) ==
    IF ~NonEmpty(ClipBox(b))
    THEN [raised |-> "AssertionError", brick |-> None, input |-> b]
    ELSE ClipFrom(b, ClipBox(b), Volume(b))

\* The physical boxes of the brick to clip: every box inside its logical
\* box, boxes with a halo, boxes that overlap the logical box in part, and
\* boxes that miss it in one axis or in both.
ClipPhysBoxes(logical) ==
    SubBoxes(logical)
        \cup {BoxGrow(logical, <<1, 0>>), BoxGrow(logical, <<1, 1>>),
              BoxShift(logical, <<2, -1>>), BoxShift(logical, <<4, 0>>),
              BoxShift(logical, <<0, -2>>), BoxShift(logical, <<5, 3>>)}

\* The brick in one of the forms a brick holds its voxels in.
BrickAs(form, logical, phys, sd) ==
    IF form = "lazy" THEN Brick(logical, phys, None, Some(Thunk(sd, 0)), None)
    ELSE IF form = "compressed"
    THEN Compress(Brick(logical, phys, Some(Accessor(sd, phys)), None, None)).brick
    ELSE Brick(logical, phys, Some(Accessor(sd, phys)), None, None)

BrickForms == {"eager", "lazy", "compressed"}

InitClip ==
    /\ \E start \in PadCellStarts, sd \in 0 .. (NumSeeds - 1), form \in BrickForms :
          \E phys \in ClipPhysBoxes(Box(start, VAdd(start, PadCellShape))) :
              /\ worldSeed = sd
              /\ wall = BrickWall(phys, Grid(PadCellShape, start, Vec(0)),
                                  <<BrickAs(form, Box(start, VAdd(start, PadCellShape)),
                                            phys, sd)>>)
    /\ OpIdle /\ RetryIdle /\ RealignIdle
    /\ padArg = None /\ padOut = None /\ padOut2 = None
    /\ calls = <<>>
    /\ brick = None /\ wire = None /\ peer = None /\ content = None
    /\ peerContent = None /\ destroyCalled = {}
    /\ out = [op |-> "init", who |-> "brick", raised |-> "", value |-> None]

opFixed == <<brickVars, worldSeed, padArg, padOut, padOut2, realignVars, retryVars>>

\* clip_to_logical(brick) on the brick of the wall
ClipToLogical ==
    /\ opOut = None
    /\ opArg' = Some([op |-> "clip_to_logical"])
    /\ \E r \in {clip_to_logical(wall.bricks[1])} :
          /\ opOut' = Some([raised |-> r.raised, brick |-> r.brick])
          /\ wall' = [wall EXCEPT !.bricks = <<r.input>>]
          /\ calls' = IF VolumeCallsFn(wall.bricks[1]) /\ NonEmpty(ClipBox(wall.bricks[1]))
                      THEN Append(calls, wall.bricks[1].physical_box) ELSE calls
    /\ UNCHANGED <<opFixed, opOut2>>

\* clip_to_logical on the brick the first call returned
ClipAgain ==
    /\ opOut # None /\ opOut[1].raised = "" /\ opOut2 = None
    /\ \E r \in {clip_to_logical(opOut[1].brick[1])} :
          /\ opOut2' = Some([raised |-> r.raised, brick |-> r.brick])
          /\ opOut' = Some([opOut[1] EXCEPT !.brick = Some(r.input)])
    /\ UNCHANGED <<opFixed, opArg, wall, calls>>

NextClip == ClipToLogical \/ ClipAgain

SpecClip == InitClip /\ [][NextClip]_vars

\* C11: clip_to_logical fails when intersect(physical_box, logical_box) is
\* empty in some axis; otherwise it returns a fresh brick with the same
\* logical box, that intersection as physical box, and the given brick's
\* voxels at the same global coordinates. The result has its physical box
\* inside its logical box, so split_brick accepts it, and clipping the result
\* again returns the same logical box, physical box and voxels.
C11_ClipToLogical ==
    /\ opOut # None
       => IF NonEmpty(box_intersection(wall.bricks[1].physical_box,
                                       wall.bricks[1].logical_box))
          THEN /\ opOut[1].raised = ""
               /\ opOut[1].brick[1].logical_box = wall.bricks[1].logical_box
               /\ opOut[1].brick[1].physical_box
                     = box_intersection(wall.bricks[1].physical_box,
                                        wall.bricks[1].logical_box)
               /\ ~opOut[1].brick[1].destroyed /\ ~wall.bricks[1].destroyed
               /\ \A p \in Points(opOut[1].brick[1].physical_box) :
                     /\ VoxelAt(opOut[1].brick[1], p) = VoxelAt(wall.bricks[1], p)
                     /\ VoxelAt(opOut[1].brick[1], p) = WorldVal(worldSeed, p)
               /\ Within(opOut[1].brick[1].physical_box,
                         opOut[1].brick[1].logical_box)
               /\ split_brick(wall.grid, opOut[1].brick[1]).raised = ""
          ELSE opOut[1].raised = "AssertionError" /\ opOut[1].brick = None
    /\ opOut2 # None
       => /\ opOut2[1].raised = ""
          /\ BrickValue(opOut2[1].brick[1]) = BrickValue(opOut[1].brick[1])

\* A brick with a halo on every side was clipped to its logical box, and
\* the result was clipped again.
C11_Witness ==
    /\ opOut2 # None /\ opOut2[1].raised = ""
    /\ wall.bricks[1].physical_box = BoxGrow(wall.bricks[1].logical_box, <<1, 1>>)
    /\ opOut[1].brick[1].physical_box = wall.bricks[1].logical_box
    /\ \E p \in Points(wall.bricks[1].logical_box) : WorldVal(worldSeed, p) # 0

(***************************************************************************)
(* generate_bricks_from_volume_source and BrickWall.from_accessor_func.    *)
(***************************************************************************)
\* logical_and_clipped(box): the logical box of the midpoint and the box,
\* grown by the grid's halo, clipped to the bounding box.
logical_and_clipped(bounding_box, grid, box) ==
    [logical_box |->
         compute_logical_box(grid, [a \in Axes |-> (box.lo[a] + box.hi[a]) \div 2]),
     physical_box |->
         box_intersection(BoxGrow(box, grid.halo_shape), bounding_box)]

\* is_valid(logical_and_physical)
is_valid(pair) ==
    /\ \A a \in Axes : pair.physical_box.hi[a] > pair.logical_box.lo[a]
    /\ \A a \in Axes : pair.physical_box.lo[a] < pair.logical_box.hi[a]

\* A version of the dense boxes that keeps the cells unclipped.
UnclippedDenseBoxes(bounding_box, grid) ==
    [k \in 1 .. Len(boxes_from_grid(bounding_box, grid, FALSE)) |->
        [logical_box |-> boxes_from_grid(bounding_box, grid, FALSE)[k],
         physical_box |-> boxes_from_grid(bounding_box, grid, FALSE)[k]]]

\* zip(logical_boxes, physical_boxes) of the dense case
DenseBoxes(bounding_box, grid) ==
    [k \in 1 .. Len(boxes_from_grid(bounding_box, grid, FALSE)) |->
        [logical_box |-> boxes_from_grid(bounding_box, grid, FALSE)[k],
         physical_box |-> clipped_boxes_from_grid(bounding_box, grid)[k]]]

\* filter(is_valid, map(logical_and_clipped, physical_boxes))
SparseBoxes(bounding_box, grid, sparse_boxes) ==
    SelectSeq([k \in 1 .. Len(sparse_boxes) |->
                  logical_and_clipped(bounding_box, grid, sparse_boxes[k])],
              is_valid)

logical_and_physical_boxes(bounding_box, grid, sparse_boxes) ==
    IF sparse_boxes = None THEN DenseBoxes(bounding_box, grid)
    ELSE SparseBoxes(bounding_box, grid, sparse_boxes[1])

\* A version that calls the accessor at once whatever lazy says.
MakeBricksEagerly(pair, fn, lazy) ==
    IF ~InitOk(pair.physical_box, Some(CallThunk(fn, pair.physical_box)), None)
    THEN [raised |-> "AssertionError", called |-> <<pair.physical_box>>,
          brick |-> None]
    ELSE [raised |-> "", called |-> <<pair.physical_box>>,
          brick |-> Some(Brick(pair.logical_box, pair.physical_box,
                               Some(CallThunk(fn, pair.physical_box)),
                               None, None))]

\* make_bricks(logical_and_physical_box): what it raises or the brick, and
\* the box the accessor was called with, if it was.
make_bricks(pair, fn, lazy) ==
    IF lazy
    THEN [raised |-> "", called |-> <<>>,
          brick |-> Some(Brick(pair.logical_box, pair.physical_box,
                               None, Some(fn), None))]
    ELSE IF ~InitOk(pair.physical_box,
                    Some(CallThunk(fn, pair.physical_box)), None)
    THEN [raised |-> "AssertionError", called |-> <<pair.physical_box>>,
          brick |-> None]
    ELSE [raised |-> "", called |-> <<pair.physical_box>>,
          brick |-> Some(Brick(pair.logical_box, pair.physical_box,
                               Some(CallThunk(fn, pair.physical_box)),
                               None, None))]

\* rt.map(make_bricks, boxes): the bricks, or what the first failing
\* make_bricks raised, and the accessor calls made until then.
RECURSIVE MapMakeBricks(_, _, _, _, _)
MapMakeBricks(made, k, done, fn, lazy) ==
    IF k > Len(made) THEN done
    ELSE IF made[k].raised # ""
    THEN [raised |-> made[k].raised, bricks |-> <<>>,
          called |-> done.called \o made[k].called]
    ELSE MapMakeBricks(made, k + 1,
                       [raised |-> "",
                        bricks |-> Append(done.bricks, made[k].brick[1]),
                        called |-> done.called \o made[k].called],
                       fn, lazy)

generate_bricks_from_volume_source(bounding_box, grid, fn, sparse_boxes, lazy) ==
    MapMakeBricks(
        [k \in 1 .. Len(logical_and_physical_boxes(bounding_box, grid, sparse_boxes)) |->
            make_bricks(logical_and_physical_boxes(bounding_box, grid, sparse_boxes)[k],
                        fn, lazy)],
        1, [raised |-> "", bricks |-> <<>>, called |-> <<>>], fn, lazy)

\* BrickWall.from_accessor_func(bounding_box, grid, fn, sparse_boxes, lazy)
from_accessor_func(bounding_box, grid, generated) ==
    [raised |-> generated.raised,
     wall |-> IF generated.raised = ""
              THEN Some(BrickWall(bounding_box, grid, generated.bricks))
              ELSE None,
     called |-> generated.called]

(***************************************************************************)
(* from_accessor_func, then volume reads and compress() on the bricks of   *)
(* the new wall (SpecGenerate).                                            *)
(***************************************************************************)
MaxTouched == 2     \* how many bricks of the wall are read and compressed
MaxReads == 2       \* volume reads counted per brick

GenerateGrids ==
    {Grid(<<2, 2>>, <<0, 0>>, <<0, 0>>), Grid(<<3, 2>>, <<1, 1>>, <<0, 0>>),
     Grid(<<4, 4>>, <<0, 0>>, <<0, 0>>), Grid(<<4, 4>>, <<0, 0>>, <<1, 0>>)}

\* The boxes sparse_boxes is made of: inside the bounding boxes, across
\* their edges, and outside of them, near and far.
SparseChoices ==
    <<Box(<<2, 0>>, <<4, 2>>), Box(<<4, 0>>, <<6, 2>>), Box(<<6, 0>>, <<8, 2>>),
      Box(<<5, 1>>, <<6, 2>>), Box(<<-2, -2>>, <<0, 0>>), Box(<<0, 0>>, <<1, 1>>)>>

\* sparse_boxes: absent, or one or two of the boxes.
SparseArgs ==
    {None}
        \cup {Some(<<SparseChoices[i]>>) : i \in 1 .. Len(SparseChoices)}
        \cup {Some(<<SparseChoices[ij[1]], SparseChoices[ij[2]]>>) :
                 ij \in {x \in (1 .. Len(SparseChoices)) \X (1 .. Len(SparseChoices)) :
                            x[1] < x[2]}}

InitGenerate ==
    /\ \E bb \in RealignBounds, grid \in GenerateGrids, sparse \in SparseArgs,
          lazy \in BOOLEAN, shrink \in {0, 1}, sd \in 0 .. (NumSeeds - 1) :
          /\ worldSeed = sd
          /\ opArg = Some([bounding_box |-> bb, grid |-> grid,
                           sparse_boxes |-> sparse, lazy |-> lazy,
                           fn |-> Thunk(sd, shrink)])
    /\ wall = None /\ opOut = None /\ opOut2 = None
    /\ RetryIdle /\ RealignIdle
    /\ padArg = None /\ padOut = None /\ padOut2 = None
    /\ calls = <<>>
    /\ brick = None /\ wire = None /\ peer = None /\ content = None
    /\ peerContent = None /\ destroyCalled = {}
    /\ out = [op |-> "init", who |-> "brick", raised |-> "", value |-> None]

genFixed == <<brickVars, worldSeed, padArg, padOut, padOut2, realignVars,
              retryVars, opArg>>

\* BrickWall.from_accessor_func(bounding_box, grid, fn, None, None,
\* sparse_boxes, lazy); opOut2 counts the volume reads of each brick.
Generate ==
    /\ opOut = None
    /\ \E r \in {from_accessor_func(
                    opArg[1].bounding_box, opArg[1].grid,
                    generate_bricks_from_volume_source(
                        opArg[1].bounding_box, opArg[1].grid, opArg[1].fn,
                        opArg[1].sparse_boxes, opArg[1].lazy))} :
          /\ opOut' = Some([raised |-> r.raised, called |-> r.called])
          /\ wall' = IF r.raised = "" THEN r.wall[1] ELSE None
          /\ calls' = r.called
          /\ opOut2' = IF r.raised = ""
                       THEN Some([k \in 1 .. Len(r.wall[1].bricks) |-> 0])
                       ELSE None
    /\ UNCHANGED genFixed

Generated == opOut # None /\ opOut[1].raised = ""

Touched == IF Generated THEN 1 .. Min2(Len(wall.bricks), MaxTouched) ELSE {}

\* brick.volume on a brick of the wall
ReadBrick(k) ==
    /\ Generated /\ k \in Touched
    /\ opOut2[1][k] < MaxReads
    /\ \E r \in {Volume(wall.bricks[k])} :
          /\ wall' = [wall EXCEPT !.bricks[k] = r.brick]
          /\ calls' = IF VolumeCallsFn(wall.bricks[k])
                      THEN Append(calls, wall.bricks[k].physical_box) ELSE calls
    /\ opOut2' = Some([opOut2[1] EXCEPT ![k] = @ + 1])
    /\ UNCHANGED <<genFixed, opOut>>

\* brick.compress() on a brick of the wall
CompressBrick(k) ==
    /\ Generated /\ k \in Touched
    /\ wall.bricks[k].volume # None
    /\ wall' = [wall EXCEPT !.bricks[k] = Compress(wall.bricks[k]).brick]
    /\ UNCHANGED <<genFixed, opOut, opOut2, calls>>

NextGenerate ==
    \/ Generate
    \/ \E k \in 1 .. MaxTouched : ReadBrick(k)
    \/ \E k \in 1 .. MaxTouched : CompressBrick(k)

SpecGenerate == InitGenerate /\ [][NextGenerate]_vars

\* The cells of the grid that hold a coordinate of the box.
CellsOver(bounding_box, grid) ==
    {compute_logical_box(grid, p) : p \in Points(bounding_box)}

C13_SparseBricks ==
    (Generated /\ opArg[1].sparse_boxes # None)
    => /\ \A k \in 1 .. Len(wall.bricks) :
             /\ \E i \in 1 .. Len(opArg[1].sparse_boxes[1]) :
                   wall.bricks[k].logical_box
                      = logical_and_clipped(opArg[1].bounding_box, opArg[1].grid,
                                            opArg[1].sparse_boxes[1][i]).logical_box
             /\ NonEmpty(wall.bricks[k].physical_box)
             /\ Within(wall.bricks[k].physical_box, opArg[1].bounding_box)
             /\ Intersects(wall.bricks[k].physical_box, wall.bricks[k].logical_box)
       /\ Len(wall.bricks)
             = Cardinality({i \in 1 .. Len(opArg[1].sparse_boxes[1]) :
                  /\ Intersects(BoxGrow(opArg[1].sparse_boxes[1][i],
                                        opArg[1].grid.halo_shape),
                                opArg[1].bounding_box)
                  /\ Intersects(
                        logical_and_clipped(opArg[1].bounding_box, opArg[1].grid,
                                            opArg[1].sparse_boxes[1][i]).physical_box,
                        logical_and_clipped(opArg[1].bounding_box, opArg[1].grid,
                                            opArg[1].sparse_boxes[1][i]).logical_box)})

Count(q, x) == Cardinality({n \in 1 .. Len(q) : q[n] = x})

\* C14: with lazy=True generation calls the accessor not at all, and each
\* brick's accessor is called once, at the brick's first volume read, with the
\* brick's physical box, and never again on later reads or after compress();
\* with lazy=False the accessor is called once per brick, with its physical
\* box, during generation, and never later.
C14_AccessorCalls ==
    Generated
    => IF opArg[1].lazy
       THEN /\ opOut[1].called = <<>>
            /\ \A k \in 1 .. Len(wall.bricks) :
                  Count(calls, wall.bricks[k].physical_box)
                     = Cardinality({n \in 1 .. Len(wall.bricks) :
                          /\ opOut2[1][n] > 0
                          /\ wall.bricks[n].physical_box = wall.bricks[k].physical_box})
            /\ Len(calls) = Cardinality({n \in 1 .. Len(wall.bricks) : opOut2[1][n] > 0})
       ELSE /\ opOut[1].called
                  = [k \in 1 .. Len(wall.bricks) |-> wall.bricks[k].physical_box]
            /\ calls = opOut[1].called

\* A lazy wall of which one brick was read, compressed and read again while
\* another was never read.
C14_Witness ==
    /\ Generated /\ opArg[1].lazy
    /\ Len(wall.bricks) >= 2
    /\ opOut2[1][1] = MaxReads /\ opOut2[1][2] = 0
    /\ wall.bricks[1].compressed_volume # None /\ wall.bricks[1].volume # None
    /\ calls = <<wall.bricks[1].physical_box>>

(***************************************************************************)
(* The transforms of a BrickWall.                                          *)
(***************************************************************************)
\* The first element of a map over the bricks that raised (0 for none).
FirstFailure(rs) ==
    IF \E k \in 1 .. Len(rs) : rs[k].raised # ""
    THEN SetMin({k \in 1 .. Len(rs) : rs[k].raised # ""})
    ELSE 0

\* rt.map(f, bricks) from the outcomes of f on each brick: what the map
\* raised or the bricks it returned, and the given bricks as it leaves them
\* (the bricks after the failing one are not reached).
Collected(rs, originals, fail) ==
    [raised |-> IF fail = 0 THEN "" ELSE rs[fail].raised,
     bricks |-> IF fail = 0 THEN [k \in 1 .. Len(rs) |-> rs[k].brick[1]] ELSE <<>>,
     inputs |-> [k \in 1 .. Len(rs) |->
                    IF fail = 0 \/ k <= fail THEN rs[k].input ELSE originals[k]]]

Collect(rs, originals) == Collected(rs, originals, FirstFailure(rs))

\* The accessor calls the volume reads of a map over the bricks made: one,
\* with its physical box, for every lazy brick that was read for the first
\* time.
ReadCallsOf(marked) == [n \in 1 .. Len(marked) |-> marked[n].physical_box]

ReadCalls(before, after) ==
    ReadCallsOf(SelectSeq(
        [k \in 1 .. Len(before) |->
            [physical_box |-> before[k].physical_box,
             read |-> VolumeCallsFn(before[k]) /\ after[k] # before[k]]],
        LAMBDA x : x.read))

TranslateFrom(b, offset_zyx, r) ==
    IF r.raised # "" THEN [raised |-> r.raised, brick |-> None, input |-> r.brick]
    ELSE IF ~InitOk(BoxShift(b.physical_box, offset_zyx), r.value, None)
    THEN [raised |-> "AssertionError", brick |-> None, input |-> r.brick]
    ELSE [raised |-> "",
          brick |-> Some(Brick(BoxShift(b.logical_box, offset_zyx),
                               BoxShift(b.physical_box, offset_zyx),
                               r.value, None, None)),
          input |-> r.brick]

\* translate_brick(brick)
translate_brick(b, offset_zyx) == TranslateFrom(b, offset_zyx, Volume(b))

\* new_grid = Grid(self.grid.block_shape, self.grid.offset + offset_zyx)
TranslatedGrid(grid, offset_zyx) ==
    Grid(grid.block_shape, VAdd(grid.offset, offset_zyx), Vec(0))

TranslateOutcome(w, offset_zyx, c) ==
    [raised |-> c.raised,
     wall |-> IF c.raised = ""
              THEN Some(BrickWall(BoxShift(w.bounding_box, offset_zyx),
                                  TranslatedGrid(w.grid, offset_zyx), c.bricks))
              ELSE None,
     receiver |-> [w EXCEPT !.bricks = c.inputs],
     called |-> ReadCalls(w.bricks, c.inputs)]

\* BrickWall.translate(offset_zyx): what it raises or the new wall, and the
\* receiver as the call leaves it.
translate(w, offset_zyx) ==
    TranslateOutcome(w, offset_zyx,
                     Collect([k \in 1 .. Len(w.bricks) |->
                                 translate_brick(w.bricks[k], offset_zyx)],
                             w.bricks))

\* brick.volume = value: Brick.volume is a property without a setter, so the
\* assignment raises and the brick stays as it is.
SetVolume(b, value) == Raised(b, "AttributeError")

RemapSet(b, mapping, set) ==
    IF set.raised # ""
    THEN [raised |-> set.raised, brick |-> None, input |-> set.brick]
    ELSE [raised |-> "",
          brick |-> Some([set.brick EXCEPT
                             !.volume = Some(ApplyInplace(set.brick.volume[1],
                                                          mapping))]),
          input |-> [set.brick EXCEPT
                        !.volume = Some(ApplyInplace(set.brick.volume[1],
                                                     mapping))]]

RemapFrom(b, mapping, r) ==
    IF r.raised # "" THEN [raised |-> r.raised, brick |-> None, input |-> r.brick]
    ELSE RemapSet(b, mapping, SetVolume(r.brick, r.value[1]))

\* One pass of the loop of remap_bricks: the brick is relabelled in place
\* and is itself the brick returned.
remap_brick(b, mapping) == RemapFrom(b, mapping, Volume(b))

ApplyLabelmapOutcome(w, c) ==
    [raised |-> c.raised,
     wall |-> IF c.raised = ""
              THEN Some(BrickWall(w.bounding_box, w.grid, c.bricks))
              ELSE None,
     receiver |-> [w EXCEPT !.bricks = c.inputs],
     called |-> ReadCalls(w.bricks, c.inputs)]

\* BrickWall.apply_labelmap(labelmap_config, working_dir, unpersist_original)
\* with the mapping pairs of the config's file (None for a config without
\* file): what it raises or the new wall, and the receiver after the call.
apply_labelmap(w, mapping, unpersist_original) ==
    IF mapping = None
    THEN [raised |-> "", wall |-> Some(BrickWall(w.bounding_box, w.grid, w.bricks)),
          receiver |-> w, called |-> <<>>]
    ELSE ApplyLabelmapOutcome(
             w, Collect([k \in 1 .. Len(w.bricks) |->
                            remap_brick(w.bricks[k], mapping[1])],
                        w.bricks))

DropFrom(r) ==
    [raised |-> r.raised,
     keep |-> r.raised = "" /\ \E i \in DOMAIN r.value[1].data : r.value[1].data[i] # 0,
     brick |-> Some(r.brick), input |-> r.brick]

DropEmptyOutcome(w, c, rs) ==
    [raised |-> c.raised,
     wall |-> IF c.raised = ""
              THEN Some(BrickWall(
                       w.bounding_box, w.grid,
                       [n \in 1 .. Len(SelectSeq(rs, LAMBDA x : x.keep)) |->
                           SelectSeq(rs, LAMBDA x : x.keep)[n].input]))
              ELSE None,
     receiver |-> [w EXCEPT !.bricks = c.inputs],
     called |-> ReadCalls(w.bricks, c.inputs)]

DropEmptyOver(w, rs) == DropEmptyOutcome(w, Collect(rs, w.bricks), rs)

\* BrickWall.drop_empty(): the bricks whose volume has a non-zero voxel.
drop_empty(w) ==
    DropEmptyOver(w, [k \in 1 .. Len(w.bricks) |-> DropFrom(Volume(w.bricks[k]))])

RealignWholeOutcome(w, split, r) ==
    [raised |-> IF split.raised # "" THEN split.raised ELSE r.raised,
     wall |-> IF split.raised # "" THEN None ELSE r.wall,
     receiver |-> [w EXCEPT !.bricks = split.inputs],
     called |-> ReadCalls(w.bricks, split.inputs)]

RealignSplit(w, new_grid, split, sa) ==
    RealignWholeOutcome(
        w, split,
        RealignOutcome(w, new_grid, AssembleAll(group_by_key(sa.pairs))))

RealignOver(w, new_grid, splits) ==
    RealignSplit(w, new_grid,
                 Collect([k \in 1 .. Len(splits) |->
                             [raised |-> splits[k].raised, brick |-> Some(0),
                              input |-> splits[k].input]],
                         w.bricks),
                 SplitAll(splits))

\* BrickWall.realign_to_new_grid(new_grid) as one call: what it raises or the
\* new wall, and the receiver as the call leaves it.
realign_to_new_grid(w, new_grid) ==
    RealignOver(w, new_grid,
                [k \in 1 .. Len(w.bricks) |-> split_brick(new_grid, w.bricks[k])])

\* The most frequent non-zero label among the labels (the smallest of the
\* most frequent ones), 0 when there is none: downsample_labels with
\* suppress_zero on one block.
ModeLabel(block) ==
    IF \A i \in DOMAIN block : block[i] = 0 THEN 0
    ELSE CHOOSE l \in {block[i] : i \in DOMAIN block} \ {0} :
            \A m \in {block[i] : i \in DOMAIN block} \ {0} :
               \/ Cardinality({i \in DOMAIN block : block[i] = l})
                     > Cardinality({i \in DOMAIN block : block[i] = m})
               \/ /\ Cardinality({i \in DOMAIN block : block[i] = l})
                        = Cardinality({i \in DOMAIN block : block[i] = m})
                  /\ l <= m

\* The least voxel of the block: stands for the value zoom interpolates.
ZoomValue(block) == SetMin({block[i] : i \in DOMAIN block})

\* The voxels of the block of the given factor at index i of the result.
BlockAt(vol, factor, i) ==
    [d \in Indices(Vec(factor)) |->
        vol.data[[a \in Axes |-> factor * i[a] + d[a]]]]

\* downsample_labels(volume, factor, suppress_zero=True) for method 'label',
\* zoom(volume, 1/factor) for method 'grayscale'.
downsampled_volume(vol, factor, method) ==
    [shape |-> [a \in Axes |-> vol.shape[a] \div factor],
     data |-> [i \in Indices([a \in Axes |-> vol.shape[a] \div factor]) |->
                  IF method = "label" THEN ModeLabel(BlockAt(vol, factor, i))
                  ELSE ZoomValue(BlockAt(vol, factor, i))]]

FloorDivBox(box, factor) ==
    Box([a \in Axes |-> box.lo[a] \div factor],
        [a \in Axes |-> box.hi[a] \div factor])

DivisibleBox(box, factor) ==
    \A a \in Axes : box.lo[a] % factor = 0 /\ box.hi[a] % factor = 0

DownsampleFrom(b, factor, method, r) ==
    IF r.raised # "" THEN [raised |-> r.raised, brick |-> None, input |-> r.brick]
    ELSE IF ~InitOk(FloorDivBox(b.physical_box, factor),
                    Some(downsampled_volume(r.value[1], factor, method)), None)
    THEN [raised |-> "AssertionError", brick |-> None, input |-> r.brick]
    ELSE [raised |-> "",
          brick |-> Some(Brick(FloorDivBox(b.logical_box, factor),
                               FloorDivBox(b.physical_box, factor),
                               Some(downsampled_volume(r.value[1], factor, method)),
                               None, None)),
          input |-> r.brick]

\* downsample_brick(brick)
downsample_brick(b, factor, method) ==
    IF ~DivisibleBox(b.physical_box, factor) \/ ~DivisibleBox(b.logical_box, factor)
    THEN [raised |-> "AssertionError", brick |-> None, input |-> b]
    ELSE DownsampleFrom(b, factor, method, Volume(b))

DownsampleOutcome(w, factor, c) ==
    [raised |-> c.raised,
     wall |-> IF c.raised = ""
              THEN Some(BrickWall(
                       FloorDivBox(w.bounding_box, factor),
                       Grid([a \in Axes |-> w.grid.block_shape[a] \div factor],
                            [a \in Axes |-> w.grid.offset[a] \div factor],
                            Vec(0)),
                       c.bricks))
              ELSE None,
     receiver |-> [w EXCEPT !.bricks = c.inputs],
     called |-> ReadCalls(w.bricks, c.inputs)]

\* BrickWall.downsample(block_shape, method)
downsample(w, block_shape, method) ==
    IF (\E a \in Axes : block_shape[a] # block_shape[1])
          \/ method \notin {"label", "grayscale"}
    THEN [raised |-> "AssertionError", wall |-> None, receiver |-> w,
          called |-> <<>>]
    ELSE DownsampleOutcome(
             w, block_shape[1],
             Collect([k \in 1 .. Len(w.bricks) |->
                         downsample_brick(w.bricks[k], block_shape[1], method)],
                     w.bricks))

\* BrickWall.fill_missing as a transform of the wall.
FillMissingTransform(r) ==
    [raised |-> r.raised, wall |-> r.wall, receiver |-> r.self, called |-> r.fetched]

(***************************************************************************)
(* One transform applied to a generated wall, and a second one applied to  *)
(* its result (SpecTransform).                                             *)
(***************************************************************************)
TransformSparse ==
    {None, Some(<<SparseChoices[1]>>), Some(<<SparseChoices[6], SparseChoices[2]>>)}

Offsets == {<<1, 0>>, <<-2, 3>>, <<4, 4>>}

\* The walls the transforms are applied to.
TransformWalls ==
    {from_accessor_func(
         bb, grid,
         generate_bricks_from_volume_source(bb, grid, Thunk(sd, 0), sparse, lazy))
       .wall[1] :
       bb \in RealignBounds, grid \in GenerateGrids, sparse \in TransformSparse,
       lazy \in BOOLEAN, sd \in 0 .. (NumSeeds - 1)}

InitTransform ==
    /\ wall \in TransformWalls
    /\ worldSeed \in 0 .. (NumSeeds - 1)
    /\ \A k \in 1 .. Len(wall.bricks) :
          \A p \in Points(wall.bricks[k].physical_box) :
             VoxelAt(wall.bricks[k], p) = WorldVal(worldSeed, p)
    /\ OpIdle /\ RetryIdle /\ RealignIdle
    /\ padArg = None /\ padOut = None /\ padOut2 = None
    /\ calls = <<>>
    /\ brick = None /\ wire = None /\ peer = None /\ content = None
    /\ peerContent = None /\ destroyCalled = {}
    /\ out = [op |-> "init", who |-> "brick", raised |-> "", value |-> None]

transformFixed == <<brickVars, worldSeed, padArg, padOut, padOut2, realignVars,
                    retryVars>>

\* One transform of the wall: opArg keeps the call and the wall as it was
\* before, opOut the outcome, and wall becomes the receiver after the call.
Transform(op, arg, r) ==
    /\ opOut = None
    /\ opArg' = Some([op |-> op, arg |-> arg, before |-> wall])
    /\ opOut' = Some([raised |-> r.raised, wall |-> r.wall])
    /\ wall' = r.receiver
    /\ calls' = calls \o r.called
    /\ UNCHANGED <<transformFixed, opOut2>>

\* wall.translate(offset_zyx)
Translate(offset_zyx) == Transform("translate", offset_zyx, translate(wall, offset_zyx))

\* wall.translate(offset_zyx).translate(-offset_zyx)
TranslateBack ==
    /\ opOut # None /\ opOut[1].raised = "" /\ opOut2 = None
    /\ opArg[1].op = "translate"
    /\ \E r \in {translate(opOut[1].wall[1],
                           [a \in Axes |-> -opArg[1].arg[a]])} :
          /\ opOut2' = Some([raised |-> r.raised, wall |-> r.wall])
          /\ opOut' = Some([opOut[1] EXCEPT !.wall = Some(r.receiver)])
          /\ calls' = calls \o r.called
    /\ UNCHANGED <<transformFixed, opArg, wall>>

\* The mapping pairs of the labelmap file: none, [(1,2), (2,1)] or [(3,0)].
Labelmaps == {None, Some(SwapLabels), Some(3 :> 0)}

\* wall.apply_labelmap(labelmap_config, working_dir, unpersist_original)
ApplyLabelmap(mapping, unpersist_original) ==
    Transform("apply_labelmap",
              [mapping |-> mapping, unpersist_original |-> unpersist_original],
              apply_labelmap(wall, mapping, unpersist_original))

\* wall.drop_empty()
DropEmpty == Transform("drop_empty", None, drop_empty(wall))

\* wall.realign_to_new_grid(new_grid)
RealignToNewGrid(new_grid) ==
    Transform("realign_to_new_grid", new_grid, realign_to_new_grid(wall, new_grid))

\* wall.fill_missing(accessor, padding_grid)
FillMissingOf(padding_grid) ==
    Transform("fill_missing", padding_grid,
              FillMissingTransform(fill_missing(wall, worldSeed, padding_grid)))

\* wall.downsample(block_shape, method)
Downsample(block_shape, method) ==
    Transform("downsample", [block_shape |-> block_shape, method |-> method],
              downsample(wall, block_shape, method))

DownsampleShapes == {<<2, 2>>, <<1, 1>>, <<2, 1>>}

NextTransform ==
    \/ \E offset_zyx \in Offsets : Translate(offset_zyx)
    \/ TranslateBack
    \/ DropEmpty
    \/ \E new_grid \in GenerateGrids : RealignToNewGrid(new_grid)
    \/ \E padding_grid \in {None, Some(Grid(<<1, 1>>, <<0, 0>>, <<0, 0>>)),
                             Some(Grid(<<2, 2>>, <<0, 0>>, <<0, 0>>))} :
          FillMissingOf(padding_grid)
    \/ \E block_shape \in DownsampleShapes, method \in {"label", "grayscale"} :
          Downsample(block_shape, method)
    \/ \E mapping \in Labelmaps, unpersist_original \in BOOLEAN :
          ApplyLabelmap(mapping, unpersist_original)

SpecTransform == InitTransform /\ [][NextTransform]_vars

\* The logical box, physical box and voxels of every brick of a wall.
WallValue(w) == [k \in 1 .. Len(w.bricks) |-> BrickValue(w.bricks[k])]

\* C15: W.translate(offset).translate(-offset) has the bounding box and the
\* grid (block shape, offset and halo) of W, and every brick has its logical
\* box, physical box and voxels back.
C15_TranslateRoundTrip ==
    (opOut2 # None /\ opArg[1].op = "translate")
    => /\ opOut2[1].raised = ""
       /\ opOut2[1].wall[1].bounding_box = opArg[1].before.bounding_box
       /\ opOut2[1].wall[1].grid.block_shape = opArg[1].before.grid.block_shape
       /\ opOut2[1].wall[1].grid.offset = opArg[1].before.grid.offset
       /\ opOut2[1].wall[1].grid.halo_shape = opArg[1].before.grid.halo_shape
       /\ WallValue(opOut2[1].wall[1]) = WallValue(opArg[1].before)

\* What does hold of the round trip: everything but the halo of the grid.
TranslateRoundTripButHalo ==
    (opOut2 # None /\ opArg[1].op = "translate")
    => /\ opOut2[1].raised = ""
       /\ opOut2[1].wall[1].bounding_box = opArg[1].before.bounding_box
       /\ opOut2[1].wall[1].grid.block_shape = opArg[1].before.grid.block_shape
       /\ opOut2[1].wall[1].grid.offset = opArg[1].before.grid.offset
       /\ opOut2[1].wall[1].grid.halo_shape = Vec(0)
       /\ WallValue(opOut2[1].wall[1]) = WallValue(opArg[1].before)

\* The label a mapping sends a label to.
Mapped(mapping, label) ==
    IF label \in DOMAIN mapping THEN mapping[label] ELSE label

\* C16: apply_labelmap with a non-empty list of pairs completes for every
\* brick and yields bricks with the same logical and physical boxes in which
\* every voxel holds the label its former label is mapped to (its former
\* label when that is not in the pairs).
C16_LabelmapApplied ==
    (/\ opOut # None /\ opArg[1].op = "apply_labelmap"
     /\ opArg[1].arg.mapping # None)
    => /\ opOut[1].raised = ""
       /\ Len(opOut[1].wall[1].bricks) = Len(opArg[1].before.bricks)
       /\ \A k \in 1 .. Len(opArg[1].before.bricks) :
             /\ opOut[1].wall[1].bricks[k].logical_box
                   = opArg[1].before.bricks[k].logical_box
             /\ opOut[1].wall[1].bricks[k].physical_box
                   = opArg[1].before.bricks[k].physical_box
             /\ \A p \in Points(opArg[1].before.bricks[k].physical_box) :
                   VoxelAt(opOut[1].wall[1].bricks[k], p)
                      = Mapped(opArg[1].arg.mapping[1],
                               VoxelAt(opArg[1].before.bricks[k], p))

\* The receiver of the last transform is as it was: bounding box, grid, no
\* brick destroyed, and every brick yields the boxes and voxels it yielded.
ReceiverIntact ==
    /\ wall.bounding_box = opArg[1].before.bounding_box
    /\ wall.grid = opArg[1].before.grid
    /\ Len(wall.bricks) = Len(opArg[1].before.bricks)
    /\ \A k \in 1 .. Len(wall.bricks) : ~wall.bricks[k].destroyed
    /\ WallValue(wall) = WallValue(opArg[1].before)

\* The padding grid fill_missing uses: the wall's own when none is given.
PaddingGridOf(w, padding_grid) ==
    IF padding_grid = None THEN w.grid ELSE padding_grid[1]

\* What the transform asserts of its arguments and of the receiver's bricks.
TransformAccepts ==
    CASE opArg[1].op = "downsample" ->
            /\ \A a \in Axes : opArg[1].arg.block_shape[a] = opArg[1].arg.block_shape[1]
            /\ \A k \in 1 .. Len(opArg[1].before.bricks) :
                  /\ DivisibleBox(opArg[1].before.bricks[k].physical_box,
                                  opArg[1].arg.block_shape[1])
                  /\ DivisibleBox(opArg[1].before.bricks[k].logical_box,
                                  opArg[1].arg.block_shape[1])
      [] opArg[1].op = "realign_to_new_grid" ->
            \A k \in 1 .. Len(opArg[1].before.bricks) :
               Within(opArg[1].before.bricks[k].physical_box,
                      opArg[1].before.bricks[k].logical_box)
      [] opArg[1].op = "fill_missing" ->
            /\ ~HasHalo(PaddingGridOf(opArg[1].before, opArg[1].arg))
            /\ \A k \in 1 .. Len(opArg[1].before.bricks) :
                  /\ Within(opArg[1].before.bricks[k].physical_box,
                            opArg[1].before.bricks[k].logical_box)
                  /\ Aligned(opArg[1].before.bricks[k].logical_box,
                             PaddingGridOf(opArg[1].before, opArg[1].arg))
      [] OTHER -> TRUE

\* C17: drop_empty, realign_to_new_grid, fill_missing, translate, downsample
\* and apply_labelmap without unpersist_original return a new BrickWall and
\* leave the receiver with its bounding box and grid, none of its bricks
\* destroyed, each brick yielding its logical box, physical box and voxels.
C17_TransformsKeepReceiver ==
    (/\ opOut # None /\ opOut2 = None /\ TransformAccepts
     /\ ~(opArg[1].op = "apply_labelmap" /\ opArg[1].arg.unpersist_original))
    => /\ opOut[1].raised = ""
       /\ opOut[1].wall # None
       /\ ReceiverIntact

\* The part of C17 that holds: every transform leaves the receiver as it
\* was, and every one but apply_labelmap with a mapping returns a wall.
TransformsKeepReceiverButLabelmap ==
    (opOut # None /\ opOut2 = None)
    => /\ ReceiverIntact
       /\ (/\ TransformAccepts
           /\ ~(opArg[1].op = "apply_labelmap" /\ opArg[1].arg.mapping # None))
          => opOut[1].raised = "" /\ opOut[1].wall # None

(***************************************************************************)
(* DvidVolumeServiceReader.get_subvolume and                               *)
(* DvidVolumeServiceWriter.write_subvolume under their two auto_retry      *)
(* decorators.  svcLog is the sequence of responses of the underlying      *)
(* service calls made so far, retry the position of the invocation.        *)
(***************************************************************************)
\* auto_retry(3, pause_between_tries=60.0): tries of the inner decorator.
InnerTries == 3

\* auto_retry(2, pause_between_tries=5*60.0, predicate=...): tries of the
\* outer decorator.
OuterTries == 2

\* An exception is its args; a message is the sequence of its words.
Exception(message) == [args |-> <<message>>]

\* What the underlying call (get_voxels, post_voxels) does: it returns, or
\* it raises an exception that carries a message.
Returns(value) ==
    [ok |-> TRUE, value |-> value, ex |-> Exception(<<"200", "OK">>)]

Raises(message) == [ok |-> FALSE, value |-> 0, ex |-> Exception(message)]

Failures ==
    {Raises(<<"503", "Service Unavailable">>), Raises(<<"504", "Gateway Timeout">>),
     Raises(<<"timed out">>), Raises(<<"400", "Bad Request">>)}

Responses == {Returns(sd) : sd \in 0 .. (NumSeeds - 1)} \cup Failures

\* word in ex.args[0]
InMessage(word, ex) == \E i \in 1 .. Len(ex.args[1]) : ex.args[1][i] = word

\* The inner decorator has no predicate: it retries for any reason.
InnerPredicate(ex) == TRUE

AnyReason(ex) == TRUE

\* predicate=lambda ex: '503' in ex.args[0] or '504' in ex.args[0]
OuterPredicate(ex) == InMessage("503", ex) \/ InMessage("504", ex)

\* The outer decorator catches ex from the inner one: it pauses and tries
\* again while it has a try left and the predicate accepts ex, and raises ex
\* otherwise.
OuterCaught(st, ex) ==
    IF st.outer - 1 > 0 /\ OuterPredicate(ex)
    THEN [st EXCEPT !.outer = @ - 1, !.inner = InnerTries, !.pc = "pause_outer"]
    ELSE [st EXCEPT !.outer = @ - 1, !.pc = "raised", !.error = Some(ex)]

\* The inner decorator catches ex from the function: it pauses and tries
\* again while it has a try left, and raises ex to the outer one otherwise.
InnerCaught(st, ex) ==
    IF st.inner - 1 > 0 /\ InnerPredicate(ex)
    THEN [st EXCEPT !.inner = @ - 1, !.pc = "pause_inner"]
    ELSE OuterCaught([st EXCEPT !.inner = @ - 1], ex)

RetryAfterReturn(st, resp) == InnerCaught(st, resp.ex)

\* One try of the function: its value is returned through both decorators,
\* its exception is caught by the inner one.
AfterCall(st, resp) ==
    IF resp.ok THEN [st EXCEPT !.pc = "returned", !.result = Some(resp.value)]
    ELSE InnerCaught(st, resp.ex)

RetryOps == {"get_subvolume", "write_subvolume"}

InitRetry ==
    /\ \E op \in RetryOps :
          retry = Some([op |-> op, pc |-> "call", inner |-> InnerTries,
                        outer |-> OuterTries, result |-> None, error |-> None])
    /\ svcLog = <<>>
    /\ wall = None
    /\ OpIdle /\ RealignIdle
    /\ padArg = None /\ padOut = None /\ padOut2 = None
    /\ calls = <<>>
    /\ worldSeed = 0
    /\ brick = None /\ wire = None /\ peer = None /\ content = None
    /\ peerContent = None /\ destroyCalled = {}
    /\ out = [op |-> "init", who |-> "brick", raised |-> "", value |-> None]

retryFixed == <<brickVars, calls, worldSeed, wall, padArg, padOut, padOut2,
                realignVars, opVars>>

\* The body of the decorated method runs once: the service answers.
ServiceCall(resp) ==
    /\ retry[1].pc = "call"
    /\ svcLog' = Append(svcLog, resp)
    /\ retry' = Some(AfterCall(retry[1], resp))
    /\ UNCHANGED retryFixed

\* time.sleep(60.0) of the inner decorator ends.
InnerPause ==
    /\ retry[1].pc = "pause_inner"
    /\ retry' = Some([retry[1] EXCEPT !.pc = "call"])
    /\ UNCHANGED <<svcLog, retryFixed>>

\* time.sleep(5*60.0) of the outer decorator ends.
OuterPause ==
    /\ retry[1].pc = "pause_outer"
    /\ retry' = Some([retry[1] EXCEPT !.pc = "call"])
    /\ UNCHANGED <<svcLog, retryFixed>>

NextRetry ==
    \/ \E resp \in Responses : ServiceCall(resp)
    \/ InnerPause
    \/ OuterPause

\* The invocation runs in one thread, which always takes its next step.
SpecRetry == InitRetry /\ [][NextRetry]_vars /\ WF_vars(NextRetry)

RetryDone == retry[1].pc \in {"returned", "raised"}

\* The outer attempts begun so far (the one a pause leads to included).
OuterAttempts ==
    IF retry[1].pc = "raised" THEN 2 - retry[1].outer ELSE 3 - retry[1].outer

RetryBounded ==
    /\ Len(svcLog) <= 6
    /\ OuterAttempts <= 2
    /\ Len(svcLog) <= 3 * OuterAttempts
    /\ \A i \in 1 .. Len(svcLog) - 1 : ~svcLog[i].ok
    /\ retry[1].pc = "returned"
          <=> (svcLog # <<>> /\ svcLog[Len(svcLog)].ok)
    /\ retry[1].pc = "returned"
          => /\ retry[1].result = Some(svcLog[Len(svcLog)].value)
             /\ retry[1].error = None
    /\ retry[1].pc = "raised"
          => /\ retry[1].result = None
             /\ retry[1].error = Some(svcLog[Len(svcLog)].ex)
    /\ (Len(svcLog) = 6 /\ ~svcLog[6].ok) => retry[1].pc = "raised"

\* C18: an invocation of get_subvolume or write_subvolume ends; it makes at
\* most 3 underlying calls per outer attempt and at most 2 outer attempts,
\* so at most 6 calls; the first call that succeeds is the last one and its
\* value is returned; when both loops are exhausted the last error is raised
\* and no value is returned.
C18_RetryTerminates == []RetryBounded /\ <>RetryDone

C18_Witness ==
    /\ retry # None /\ retry[1].pc = "raised" /\ Len(svcLog) = 6
    /\ retry[1].error = Some(Exception(<<"504", "Gateway Timeout">>))

\* The failures the specification calls transient: 503, 504 and a network
\* time-out; every other failure is permanent.
Transient(resp) ==
    ~resp.ok /\ (InMessage("503", resp.ex) \/ InMessage("504", resp.ex)
                    \/ InMessage("timed out", resp.ex))

Permanent(resp) == ~resp.ok /\ ~Transient(resp)

\* C19: only a transient failure (503, 504, network time-out) is followed by
\* another attempt; a permanent failure is raised to the caller and the call
\* is not attempted again.
C19_OnlyTransientRetried ==
    \A i \in 1 .. Len(svcLog) :
       Permanent(svcLog[i]) => (i = Len(svcLog) /\ retry[1].pc = "raised")

\* The failure's message holds 503 or 504.
GatewayFailure(resp) ==
    ~resp.ok /\ (InMessage("503", resp.ex) \/ InMessage("504", resp.ex))

\* C19 as the code has it: a failure of any kind is followed by another
\* attempt until the inner decorator's 3 tries are used; the third failure
\* in a row starts a second round of 3 only when its message holds 503 or
\* 504, and is raised to the caller otherwise (a time-out included); the
\* sixth failure is raised whatever it is.
C19_RetryPolicy ==
    /\ retry[1].pc = "raised"
          <=> /\ svcLog # <<>> /\ ~svcLog[Len(svcLog)].ok
              /\ \/ Len(svcLog) = 2 * 3
                 \/ Len(svcLog) = 3 /\ ~GatewayFailure(svcLog[3])
    /\ retry[1].pc = "raised" => retry[1].error = Some(svcLog[Len(svcLog)].ex)
    /\ Len(svcLog) > 3 => GatewayFailure(svcLog[3])
    /\ (svcLog # <<>> /\ ~svcLog[Len(svcLog)].ok /\ Len(svcLog) % 3 # 0)
          => retry[1].pc \in {"pause_inner", "call"}
    /\ (Len(svcLog) = 3 /\ ~svcLog[3].ok /\ GatewayFailure(svcLog[3]))
          => retry[1].pc \in {"pause_outer", "call"}

C19_Witness ==
    /\ retry # None /\ retry[1].pc = "raised" /\ Len(svcLog) = 3
    /\ Permanent(svcLog[1])
    /\ svcLog[3] = Raises(<<"timed out">>)

\* C20: every brick of a generated wall (its physical box of positive
\* extent) whose volume is materialised holds a buffer of the shape of its
\* physical box.
C20_VolumeShape ==
    wall # None
    => \A k \in 1 .. Len(wall.bricks) :
          (wall.bricks[k].volume # None /\ NonEmpty(wall.bricks[k].physical_box))
          => wall.bricks[k].volume[1].shape = Shape(wall.bricks[k].physical_box)

(***************************************************************************)
(* pad_brick_data_from_volume_source: its halo boxes and its assertions    *)
(* (SpecPad).                                                              *)
(***************************************************************************)
PadSucceeded == padOut # None /\ padOut2 = None /\ padOut[1].raised = ""

PadFailed == padOut # None /\ padOut2 = None /\ padOut[1].raised # ""

\* The brick given to pad_brick and the brick it returned.
PadInput == wall.bricks[1]

PadResult == padOut[1].wall[1].bricks[1]

\* The boxes pad_brick asked the padding accessor for: a lazy brick's own
\* volume is made first, by the brick's own function.
HaloFetched ==
    IF PadInput.create_volume_fn # None /\ padOut[1].fetched # <<>>
    THEN Tail(padOut[1].fetched)
    ELSE padOut[1].fetched

\* The lazy brick has not been read.
PadInputUntouched ==
    /\ calls = <<>>
    /\ PadInput.create_volume_fn # None => PadInput.volume = None

\* The halo boxes cover the padded box outside the original physical box,
\* and none of them meets the original physical box.
HaloCoversPadding ==
    /\ \A i \in 1 .. Len(HaloFetched) :
          Points(HaloFetched[i]) \cap Points(PadInput.physical_box) = {}
    /\ UNION {Points(HaloFetched[i]) : i \in 1 .. Len(HaloFetched)}
          = Points(PadResult.physical_box) \ Points(PadInput.physical_box)

\* C21: the halo boxes pad_brick requests are pairwise disjoint, none meets
\* the brick's original physical box, and together they cover exactly the
\* padded box outside the original physical box: no coordinate is requested
\* twice.
C21_HaloSlabsDisjoint ==
    PadSucceeded
    => /\ HaloCoversPadding
       /\ \A i, j \in 1 .. Len(HaloFetched) :
             i # j => Points(HaloFetched[i]) \cap Points(HaloFetched[j]) = {}

\* The part of C21 that holds: the cover, and disjointness from the brick.
HaloSlabsCoverPadding == PadSucceeded => HaloCoversPadding

\* The faces (axis and side) on which two boxes differ.
Faces(orig_box, padded_box) ==
    {<<a, "leading">> : a \in {x \in Axes : orig_box.lo[x] # padded_box.lo[x]}}
        \cup {<<a, "trailing">> : a \in {x \in Axes : orig_box.hi[x] # padded_box.hi[x]}}

\* The slab of a face: the padded box cut at the original box's side.
FaceBox(face, orig_box, padded_box) ==
    IF face[2] = "leading"
    THEN Box(padded_box.lo, [padded_box.hi EXCEPT ![face[1]] = orig_box.lo[face[1]]])
    ELSE Box([padded_box.lo EXCEPT ![face[1]] = orig_box.hi[face[1]]], padded_box.hi)

\* C22: pad_brick calls the accessor exactly once per face on which the
\* padded box differs from the original physical box; when the physical box
\* is aligned to the padding grid it makes no call and returns the brick it
\* was given, unread; otherwise it makes at least one call and at most one
\* per side of each axis.
C22_OneCallPerFace ==
    PadSucceeded
    => /\ Len(HaloFetched) = Cardinality(Faces(PadInput.physical_box,
                                                PadResult.physical_box))
       /\ \A face \in Faces(PadInput.physical_box, PadResult.physical_box) :
             Cardinality({i \in 1 .. Len(HaloFetched) :
                             HaloFetched[i] = FaceBox(face, PadInput.physical_box,
                                                      PadResult.physical_box)}) = 1
       /\ IF Aligned(PadInput.physical_box, PadGridUsed)
          THEN /\ padOut[1].fetched = <<>>
               /\ PadResult = PadInput
               /\ PadInputUntouched
          ELSE /\ Len(HaloFetched) >= 1
               /\ Len(HaloFetched) <= 2 * Cardinality(Axes)

C22_Witness ==
    /\ PadSucceeded
    /\ Len(HaloFetched) = 3
    /\ PadInput.create_volume_fn # None

\* C23: pad_brick fails, before any accessor call and with the brick as it
\* was, when the padding grid has a halo or the logical box is not aligned to
\* it; it fails as well whenever the physical box snapped outwards to the
\* padding grid reaches outside the logical box.
C23_PadContract ==
    padOut # None /\ padOut2 = None
    => /\ (HasHalo(PadGridUsed) \/ ~Aligned(PadInput.logical_box, PadGridUsed))
             => (padOut[1].raised # "" /\ PadInputUntouched)
       /\ ~Within(PaddedBox(PadInput.physical_box, PadGridUsed), PadInput.logical_box)
             => padOut[1].raised # ""

\* The part of C23 that holds: the two assertions on the grid, and the
\* assertion on the padded box when the physical box is not yet aligned.
PadContractUnlessAligned ==
    padOut # None /\ padOut2 = None
    => /\ (HasHalo(PadGridUsed) \/ ~Aligned(PadInput.logical_box, PadGridUsed))
             => (padOut[1].raised # "" /\ PadInputUntouched)
       /\ (/\ ~Within(PaddedBox(PadInput.physical_box, PadGridUsed),
                      PadInput.logical_box)
           /\ ~Aligned(PadInput.physical_box, PadGridUsed))
             => (padOut[1].raised # "" /\ PadInputUntouched)

(***************************************************************************)
(* split_brick and assemble_brick_fragments, stage by stage (SpecRealign). *)
(***************************************************************************)
\* Some brick of the wall reaches beyond its logical box.
SomeBrickOverhangs ==
    \E k \in 1 .. Len(wall.bricks) :
       ~Within(wall.bricks[k].physical_box, wall.bricks[k].logical_box)

\* C24: split_brick on a brick whose physical box reaches beyond its logical
\* box fails and emits no fragment; realign_to_new_grid on a wall that holds
\* such a brick raises and yields no wall.
C24_SplitForbidsOverhang ==
    (stage # "wall" /\ SomeBrickOverhangs)
    => /\ stage = "done"
       /\ fragments = <<>> /\ groups = <<>>
       /\ newWall[1].raised = "AssertionError"
       /\ newWall[1].wall = None
       /\ \A k \in 1 .. Len(wall.bricks) :
             ~Within(wall.bricks[k].physical_box, wall.bricks[k].logical_box)
             => /\ split_brick(newGrid[1], wall.bricks[k]).raised = "AssertionError"
                /\ split_brick(newGrid[1], wall.bricks[k]).frags = <<>>

\* The last brick of a wall of several bricks reaches beyond its logical box
\* on one side of the second axis only.
C24_Witness ==
    /\ stage = "done" /\ Len(wall.bricks) >= 2
    /\ Within(wall.bricks[1].physical_box, wall.bricks[1].logical_box)
    /\ \E k \in 1 .. Len(wall.bricks) :
          /\ wall.bricks[k].physical_box.hi[2] > wall.bricks[k].logical_box.hi[2]
          /\ wall.bricks[k].physical_box.lo = wall.bricks[k].logical_box.lo
    /\ HasHalo(newGrid[1])

(***************************************************************************)
(* assemble_brick_fragments on a list of fragments, and on the same        *)
(* fragments in another order (SpecAssemble).  opArg holds the fragments   *)
(* as given, opOut the outcome, opOut2 the outcome for the other order.    *)
(***************************************************************************)
MaxFragments == 3

AssembleLogical == Box(<<0, 0>>, <<4, 2>>)

OtherLogical == Box(<<4, 0>>, <<8, 2>>)

\* Physical boxes of fragments: parts of the logical box, two of them
\* disjoint, and one that lies in the halo altogether.
FragmentBoxes ==
    {Box(<<0, 0>>, <<2, 2>>), Box(<<2, 0>>, <<4, 2>>), Box(<<1, 1>>, <<3, 2>>),
     Box(<<-1, 0>>, <<0, 2>>)}

\* The sequences of n distinct fragment boxes.
BoxLists(n) ==
    {q \in [1 .. n -> FragmentBoxes] : \A i, j \in 1 .. n : q[i] = q[j] => i = j}

\* The fragment at index k of the list: its voxels come from source volume
\* sd + k, so that the fragments can be told apart.
FragmentAs(form, logical, phys, sd, k) ==
    IF form = "compressed"
    THEN Compress(Brick(logical, phys,
                        Some(Accessor((sd + k) % NumSeeds, phys)), None, None)).brick
    ELSE Brick(logical, phys, Some(Accessor((sd + k) % NumSeeds, phys)), None, None)

\* The list of fragments on the boxes q; fragment odd (the last one, if
\* any) has another logical box, fragment dead (if any) has been destroyed.
FragmentList(q, form, sd, odd, dead) ==
    [k \in 1 .. Len(q) |->
        IF k = dead
        THEN Destroy(FragmentAs(form, AssembleLogical, q[k], sd, k))
        ELSE FragmentAs(form, IF k = odd THEN OtherLogical ELSE AssembleLogical,
                        q[k], sd, k)]

InitAssemble ==
    /\ \E n \in 1 .. MaxFragments, form \in {"compressed", "eager"},
          sd \in 0 .. (NumSeeds - 1) :
          \E q \in BoxLists(n), odd \in {0, n}, dead \in 0 .. n :
             /\ odd = 0 \/ dead = 0
             /\ worldSeed = sd
             /\ opArg = Some([fragments |-> FragmentList(q, form, sd, odd, dead)])
    /\ opOut = None /\ opOut2 = None
    /\ wall = None
    /\ RealignIdle /\ RetryIdle
    /\ padArg = None /\ padOut = None /\ padOut2 = None
    /\ calls = <<>>
    /\ brick = None /\ wire = None /\ peer = None /\ content = None
    /\ peerContent = None /\ destroyCalled = {}
    /\ out = [op |-> "init", who |-> "brick", raised |-> "", value |-> None]

assembleFixed == <<brickVars, calls, worldSeed, wall, padArg, padOut, padOut2,
                   realignVars, retryVars, opArg>>

\* assemble_brick_fragments(fragments)
Assemble ==
    /\ opOut = None
    /\ opOut' = Some(assemble_brick_fragments(opArg[1].fragments))
    /\ UNCHANGED <<assembleFixed, opOut2>>

\* The orders of n fragments.
Orders(n) == {p \in [1 .. n -> 1 .. n] : \A i, j \in 1 .. n : p[i] = p[j] => i = j}

\* assemble_brick_fragments on the same fragments, as they were given,
\* supplied in the order p.
AssembleReordered(p) ==
    /\ opOut # None /\ opOut2 = None
    /\ \E k \in 1 .. Len(p) : p[k] # k
    /\ opOut2' = Some([order |-> p,
                       outcome |-> assemble_brick_fragments(
                                       [k \in 1 .. Len(p) |->
                                           opArg[1].fragments[p[k]]])])
    /\ UNCHANGED <<assembleFixed, opOut>>

NextAssemble ==
    \/ Assemble
    \/ \E p \in Orders(Len(opArg[1].fragments)) : AssembleReordered(p)

SpecAssemble == InitAssemble /\ [][NextAssemble]_vars

\* The fragments as given to assemble_brick_fragments.
Given == opArg[1].fragments

SameLogicalBoxes == \A k \in 1 .. Len(Given) : Given[k].logical_box = Given[1].logical_box

DisjointFragments ==
    \A i, j \in 1 .. Len(Given) :
       i # j => ~Intersects(Given[i].physical_box, Given[j].physical_box)

\* C25: assemble_brick_fragments on fragments that do not all have the same
\* logical box raises, returns no brick, and leaves every fragment as it
\* was: none is destroyed and none has been read.
C25_AssembleMismatch ==
    (opOut # None /\ ~SameLogicalBoxes)
    => /\ opOut[1].raised = "AssertionError"
       /\ opOut[1].brick = None
       /\ opOut[1].frags = Given
       /\ \A k \in 1 .. Len(Given) : ~opOut[1].frags[k].destroyed

C25_Witness ==
    /\ opOut # None /\ Len(Given) = 3
    /\ Given[3].logical_box # Given[1].logical_box
    /\ Given[2].logical_box = Given[1].logical_box
    /\ \A k \in 1 .. 3 : StateOf(Given[k]) = "Compressed"
    /\ ~AllInHalo(FinalPhysicalBox(Given), Given[1].logical_box)

C27_AssembleOrder ==
    (/\ opOut2 # None /\ SameLogicalBoxes /\ DisjointFragments
     /\ \A k \in 1 .. Len(Given) : ~Given[k].destroyed)
    => /\ opOut[1].raised = "" /\ opOut2[1].outcome.raised = ""
       /\ (opOut[1].brick = None) <=> (opOut2[1].outcome.brick = None)
       /\ opOut[1].brick # None
          => BrickValue(opOut[1].brick[1]) = BrickValue(opOut2[1].outcome.brick[1])

C27_Witness ==
    /\ opOut2 # None /\ SameLogicalBoxes /\ DisjointFragments
    /\ Len(Given) = 3 /\ opOut[1].brick # None
    /\ opOut2[1].order = <<3, 1, 2>>
    /\ \A k \in 1 .. 3 :
          \E p \in Points(Given[k].physical_box) : VoxelAt(Given[k], p) # 0

\* The bricks were split: every one lies in its logical box.
WasSplit == stage # "wall" /\ ~SomeBrickOverhangs

\* The fragments split_brick made of source brick k.
FragmentsFrom(k) == {i \in 1 .. Len(fragments) : fragments[i].src = k}

\* C28: every fragment of a source brick s has a cell of the new grid
\* (without halo) as logical box, intersect(that cell grown by the halo,
\* s.physical_box) as physical box, and s's voxels there; when the new grid
\* has no halo the fragments of s are pairwise disjoint and cover exactly
\* s.physical_box.
C28_SplitFragments ==
    WasSplit
    => /\ \A i \in 1 .. Len(fragments) :
             /\ Shape(fragments[i].brick.logical_box) = newGrid[1].block_shape
             /\ \A a \in Axes :
                   (fragments[i].brick.logical_box.lo[a] - newGrid[1].offset[a])
                       % newGrid[1].block_shape[a] = 0
             /\ fragments[i].brick.physical_box
                   = box_intersection(
                         BoxGrow(fragments[i].brick.logical_box, newGrid[1].halo_shape),
                         wall.bricks[fragments[i].src].physical_box)
             /\ Volume(fragments[i].brick).value[1].shape
                   = Shape(fragments[i].brick.physical_box)
             /\ \A p \in Points(fragments[i].brick.physical_box) :
                   VoxelAt(fragments[i].brick, p)
                      = VoxelAt(wall.bricks[fragments[i].src], p)
       /\ ~HasHalo(newGrid[1])
          => \A k \in 1 .. Len(wall.bricks) :
                /\ \A i, j \in FragmentsFrom(k) :
                      i # j => ~Intersects(fragments[i].brick.physical_box,
                                           fragments[j].brick.physical_box)
                /\ UNION {Points(fragments[i].brick.physical_box) :
                             i \in FragmentsFrom(k)}
                      = Points(wall.bricks[k].physical_box)

\* A brick split over several cells of a grid with halo, and one split over
\* several cells of a grid without.
C28_Witness ==
    /\ WasSplit /\ stage = "split"
    /\ \E k \in 1 .. Len(wall.bricks) :
          /\ Cardinality(FragmentsFrom(k)) >= 3
          /\ \E p \in Points(wall.bricks[k].physical_box) :
                VoxelAt(wall.bricks[k], p) # 0
    /\ HasHalo(newGrid[1])

\* C29: every fragment split_brick emits and every brick
\* assemble_brick_fragments returns holds a compressed blob and no
\* materialised buffer.
C29_EmittedCompressed ==
    /\ \A i \in 1 .. Len(fragments) :
          /\ StateOf(fragments[i].brick) = "Compressed"
          /\ fragments[i].brick.volume = None
          /\ fragments[i].brick.compressed_volume # None
    /\ stage = "done"
       => \A g \in 1 .. Len(groups) :
             groups[g].result[1].brick # None
             => /\ StateOf(groups[g].result[1].brick[1]) = "Compressed"
                /\ groups[g].result[1].brick[1].volume = None
                /\ groups[g].result[1].brick[1].compressed_volume # None

C29_Witness ==
    /\ RealignDone /\ Len(fragments) >= 3 /\ Len(Dest) >= 2
    /\ \A d \in 1 .. Len(Dest) : StateOf(Dest[d]) = "Compressed"


(***************************************************************************)
(* BrickWall.from_accessor_func with a SparkContext: how many partitions   *)
(* the bricks are spread over, and which brick goes where (SpecPartition). *)
(***************************************************************************)
BoxVoxels(box) == Product(Shape(box), Cardinality(Axes))

RECURSIVE SumVoxels(_, _)
SumVoxels(boxes, k) ==
    IF k = 0 THEN 0 ELSE SumVoxels(boxes, k - 1) + BoxVoxels(boxes[k])

CeilDiv(a, b) == (a + b - 1) \div b

\* num_worker_nodes() * cpus_per_worker() of the cluster behind sc
Parallelism(sc) == sc[1].cpus_per_worker * sc[1].num_worker_nodes

\* The default of target_partition_size_voxels: two partitions per thread.
DefaultTargetVoxels(bounding_box, sparse_boxes, sc) ==
    ((IF sparse_boxes = None THEN BoxVoxels(bounding_box)
      ELSE SumVoxels(sparse_boxes[1], Len(sparse_boxes[1])))
        \div (IF sc # None THEN Parallelism(sc) ELSE 1)) \div 2

\* rdd_partition_length as from_accessor_func hands it on: bricks per partition
RddPartitionLength(bounding_box, grid, sparse_boxes, sc, target) ==
    (IF target = None THEN DefaultTargetVoxels(bounding_box, sparse_boxes, sc)
     ELSE target[1])
        \div Product(grid.block_shape, Cardinality(Axes))

\* A version that leaves a small number of partitions as it is.
NumRddPartitionsUnraised(num_boxes, rdd_partition_length, sc) ==
    CeilDiv(num_boxes, Max2(1, rdd_partition_length))

num_rdd_partitions(num_boxes, rdd_partition_length, sc) ==
    IF CeilDiv(num_boxes, Max2(1, rdd_partition_length)) < Parallelism(sc)
    THEN Parallelism(sc)
    ELSE CeilDiv(num_boxes, Max2(1, rdd_partition_length))

\* partitionBy(num_rdd_partitions, lambda x: x) on elements whose hash is
\* their enumeration index (counted from 0): the partition of each box.
PartitionBy(num_boxes, num_partitions) ==
    [k \in 1 .. num_boxes |-> (k - 1) % num_partitions]

\* The partitioning of the boxes when sc is given; none without sc.
Partitioning(bounding_box, grid, sparse_boxes, sc, target) ==
    IF sc = None THEN None
    ELSE Some([num_rdd_partitions |->
                  num_rdd_partitions(
                      Len(logical_and_physical_boxes(bounding_box, grid, sparse_boxes)),
                      RddPartitionLength(bounding_box, grid, sparse_boxes, sc, target),
                      sc),
               partition_of |->
                  PartitionBy(
                      Len(logical_and_physical_boxes(bounding_box, grid, sparse_boxes)),
                      num_rdd_partitions(
                          Len(logical_and_physical_boxes(bounding_box, grid, sparse_boxes)),
                          RddPartitionLength(bounding_box, grid, sparse_boxes, sc, target),
                          sc))])

\* sc: absent, or a cluster of so many nodes with so many cores each
Clusters ==
    {None, Some([cpus_per_worker |-> 1, num_worker_nodes |-> 1]),
     Some([cpus_per_worker |-> 2, num_worker_nodes |-> 1]),
     Some([cpus_per_worker |-> 2, num_worker_nodes |-> 2])}

\* target_partition_size_voxels: absent, below one block, whole blocks of
\* the grids of GenerateGrids, and in between.
TargetVoxels == {None, Some(1), Some(4), Some(7), Some(8), Some(16)}

InitPartition ==
    /\ \E bb \in RealignBounds, grid \in GenerateGrids, sparse \in SparseArgs,
          sc \in Clusters, target \in TargetVoxels :
          opArg = Some([bounding_box |-> bb, grid |-> grid,
                        sparse_boxes |-> sparse, lazy |-> TRUE,
                        fn |-> Thunk(0, 0), sc |-> sc,
                        target_partition_size_voxels |-> target])
    /\ worldSeed = 0
    /\ wall = None /\ opOut = None /\ opOut2 = None
    /\ RetryIdle /\ RealignIdle
    /\ padArg = None /\ padOut = None /\ padOut2 = None
    /\ calls = <<>>
    /\ brick = None /\ wire = None /\ peer = None /\ content = None
    /\ peerContent = None /\ destroyCalled = {}
    /\ out = [op |-> "init", who |-> "brick", raised |-> "", value |-> None]

\* BrickWall.from_accessor_func(bounding_box, grid, fn, sc,
\* target_partition_size_voxels, sparse_boxes, lazy)
GenerateOn ==
    /\ opOut = None
    /\ \E r \in {from_accessor_func(
                    opArg[1].bounding_box, opArg[1].grid,
                    generate_bricks_from_volume_source(
                        opArg[1].bounding_box, opArg[1].grid, opArg[1].fn,
                        opArg[1].sparse_boxes, opArg[1].lazy))} :
          /\ opOut' = Some([raised |-> r.raised, called |-> r.called,
                            partitioning |->
                               Partitioning(opArg[1].bounding_box, opArg[1].grid,
                                            opArg[1].sparse_boxes, opArg[1].sc,
                                            opArg[1].target_partition_size_voxels)])
          /\ wall' = IF r.raised = "" THEN r.wall[1] ELSE None
          /\ calls' = r.called
    /\ UNCHANGED <<genFixed, opOut2>>

\* The same call made once more with the same arguments.
GenerateOnAgain ==
    /\ opOut # None /\ opOut2 = None
    /\ opOut2' = Some(Partitioning(opArg[1].bounding_box, opArg[1].grid,
                                   opArg[1].sparse_boxes, opArg[1].sc,
                                   opArg[1].target_partition_size_voxels))
    /\ UNCHANGED <<genFixed, opOut, wall, calls>>

NextPartition == GenerateOn \/ GenerateOnAgain

SpecPartition == InitPartition /\ [][NextPartition]_vars

\* from_accessor_func returned a wall whose bricks were spread over a
\* cluster, for a target_partition_size_voxels the caller gave.
Partitioned ==
    /\ opOut # None /\ opOut[1].raised = ""
    /\ opArg[1].sc # None
    /\ opArg[1].target_partition_size_voxels # None

NumPartitionsUsed == opOut[1].partitioning[1].num_rdd_partitions

\* total_volume: the voxels of the physical boxes of all bricks
TotalVoxels ==
    SumVoxels([k \in 1 .. Len(wall.bricks) |-> wall.bricks[k].physical_box],
              Len(wall.bricks))

\* Bricks go to partitions in turn by their enumeration index, and a second
\* run with the same arguments places them the same way.
AssignedByIndex ==
    /\ \A k \in 1 .. Len(wall.bricks) :
          opOut[1].partitioning[1].partition_of[k] = (k - 1) % NumPartitionsUsed
    /\ opOut2 # None => opOut2[1] = opOut[1].partitioning

\* C30: when a parallel context is given, the number of partitions used by
\* generate_bricks is ceil(total_voxels / target_partition_voxels), raised
\* to the execution parallelism (cpus_per_worker * num_worker_nodes)
\* whenever it would be smaller; bricks are assigned to partitions by
\* enumeration index, so the assignment is the same on every run for a
\* given input and target_partition_voxels.
C30_PartitionCount ==
    Partitioned
    => /\ NumPartitionsUsed
             = Max2(CeilDiv(TotalVoxels, opArg[1].target_partition_size_voxels[1]),
                    Parallelism(opArg[1].sc))
       /\ AssignedByIndex

\* The whole bricks that fit into target_partition_size_voxels, at least one.
BricksPerPartition ==
    Max2(1, opArg[1].target_partition_size_voxels[1]
                \div Product(opArg[1].grid.block_shape, Cardinality(Axes)))

\* C30, amended: the number of partitions is the least number, not below
\* the execution parallelism, of partitions of BricksPerPartition bricks
\* each that hold all bricks, where BricksPerPartition is
\* target_partition_voxels divided by the voxels of one grid block, rounded
\* down, and at least 1; bricks are assigned to partitions by enumeration
\* index, the same way on every run.
C30_PartitionCountByBricks ==
    Partitioned
    => /\ NumPartitionsUsed >= Parallelism(opArg[1].sc)
       /\ NumPartitionsUsed * BricksPerPartition >= Len(wall.bricks)
       /\ NumPartitionsUsed > Parallelism(opArg[1].sc)
             => (NumPartitionsUsed - 1) * BricksPerPartition < Len(wall.bricks)
       /\ AssignedByIndex

\* Two runs on a wall of clipped bricks with more partitions than the
\* cluster has threads, where the voxel quotient gives another number.
C30_Witness ==
    /\ Partitioned /\ opOut2 # None
    /\ NumPartitionsUsed > Parallelism(opArg[1].sc)
    /\ NumPartitionsUsed
          # CeilDiv(TotalVoxels, opArg[1].target_partition_size_voxels[1])
    /\ \E k \in 1 .. Len(wall.bricks) :
          wall.bricks[k].physical_box # wall.bricks[k].logical_box

====
